---- MODULE Spec2Model ----
(***************************************************************************)
(* Verification model of the fathom data description language toolchain.   *)
(*                                                                         *)
(* Part 1: the operational semantics of the core calculus                  *)
(* (crates/ddl/src/core/semantics.rs): eval, read_back_neutral, read_back  *)
(* and equal, as operators over terms and values encoded as records.       *)
(***************************************************************************)
EXTENDS Integers, Sequences, FiniteSets, TLC

VARIABLES
    globals,    \* eval's `globals` argument: name -> [type, term]
    items,      \* eval's `items` argument: name -> Item
    term,       \* eval's `term` argument
    value,      \* the value eval returned (NoValue before the call)
    quoted,     \* the term read_back returned (None before the call)
    first,      \* the normal form of the first round (None in round 1)
    pc,         \* position of the normalisation driver
    val1,       \* equal's and read_back's value arguments
    val2,
    val3,
    eqs,        \* results of the calls of equal
    epc,        \* position of the equality driver
    command,        \* the command line: elab, norm or type
    allow_errors,   \* the command line: --allow-errors
    input,          \* what --surface-term names: missing, malformed or parsed
    reports,        \* the messages the elaboration of the input produces
    messages,       \* the messages held by the elaboration context
    stderr,         \* the diagnostics emitted so far
    is_ok,          \* check_elaboration's local
    stdout,         \* the documents printed so far
    exit_code,      \* the status the process has ended with, if it has
    steps,          \* the calls main has made so far
    surface_resets, \* how many times surface_scope.reset() has run
    cpc,            \* position of main
    module,         \* emit_module's argument
    output,         \* what the writer has accepted so far
    emitted_count,  \* items of the module emit_module's loop has gone through
    emit_result,    \* emit_module's outcome, if it has one
    emit_pc,        \* position of emit_module
    ctxt,           \* the read context a generated reader is run on
    reader,         \* the run of a generated reader
    concrete_term,  \* the concrete term handed to desugar
    raw_term,       \* the raw term desugar returned (None before the call)
    core_term,      \* from_term_prec's `term` argument
    core_prec,      \* from_term_prec's `prec` argument
    core_doc,       \* the document from_term_prec returned
    surface_term,   \* the surface term handed to Context::term
    surface_fits,   \* whether the document fits the line it is rendered on
    surface_doc     \* the rendered document of the surface term

evalVars == <<globals, items, term, value, quoted, first, pc>>
equalVars == <<val1, val2, val3, eqs, epc>>
cliVars == <<command, allow_errors, input, reports, messages, stderr, is_ok,
             stdout, exit_code, steps, surface_resets, cpc>>
emitVars == <<module, output, emitted_count, emit_result, emit_pc, ctxt, reader>>

desugarVars == <<concrete_term, raw_term>>
corePrettyVars == <<core_term, core_prec, core_doc>>
surfacePrettyVars == <<surface_term, surface_fits, surface_doc>>
frontVars == <<desugarVars, corePrettyVars, surfacePrettyVars>>

vars == <<evalVars, equalVars, cliVars, emitVars, frontVars>>

\* main is not running.
IdleCli ==
    /\ command = "elab"
    /\ allow_errors = FALSE
    /\ input = "parsed"
    /\ reports = <<>>
    /\ messages = <<>>
    /\ stderr = <<>>
    /\ is_ok = TRUE
    /\ stdout = <<>>
    /\ exit_code = <<>>
    /\ steps = <<>>
    /\ surface_resets = 0
    /\ cpc = "idle"

\* No generated reader has been called.
IdleReader ==
    [pc |-> "idle", pos |-> 0, reads |-> <<>>, types |-> <<>>,
     result |-> "none", value |-> <<>>]

\* emit_module is not called and no generated reader runs.
IdleEmit ==
    /\ module = [doc |-> <<>>, items |-> <<>>]
    /\ output = <<>>
    /\ emitted_count = 0
    /\ emit_result = "none"
    /\ emit_pc = "idle"
    /\ ctxt = [fail_at |-> 0, flag |-> FALSE]
    /\ reader = IdleReader

----------------------------------------------------------------------------
(* Bounds *)

\* Source positions run over 0..MaxPos+1; a leaf's range is <<i, i+1>>.
MaxPos == 1

\* Universe levels run over 0..MaxLevel.
MaxLevel == 1

----------------------------------------------------------------------------
(* Source ranges: Range<usize>, a pair <<start, end>> *)

RangeSet == { <<i, i + 1>> : i \in 0..MaxPos }

R0 == <<0, 1>>

----------------------------------------------------------------------------
(* Constants: Constant::Int, Constant::F32 (by bit pattern) *)

CInt(n) == [kind |-> "Int", val |-> n]

CF32(bits) == [kind |-> "F32", val |-> bits]

\* Option::None for an absent definition, and for a term not yet produced.
None == [tag |-> "None"]

\* desugar is not called.
IdleDesugar ==
    /\ concrete_term = None
    /\ raw_term = None

\* from_term_prec is not called.
IdleCorePretty ==
    /\ core_term = None
    /\ core_prec = 0
    /\ core_doc = <<>>

\* Context::term is not called.
IdleSurfacePretty ==
    /\ surface_term = None
    /\ surface_fits = TRUE
    /\ surface_doc = <<>>

\* None of the front end's functions is called.
IdleFront ==
    /\ IdleDesugar
    /\ IdleCorePretty
    /\ IdleSurfacePretty

----------------------------------------------------------------------------
(* Core terms: enum Term *)

Global(range, name) == [tag |-> "Global", range |-> range, name |-> name]

Item(range, name) == [tag |-> "Item", range |-> range, name |-> name]

Ann(t, ty) == [tag |-> "Ann", term |-> t, type |-> ty]

Universe(range, universe) == [tag |-> "Universe", range |-> range, universe |-> universe]

FunctionType(param_type, body_type) ==
    [tag |-> "FunctionType", param_type |-> param_type, body_type |-> body_type]

FunctionElim(head, argument) == [tag |-> "FunctionElim", head |-> head, argument |-> argument]

Constant(range, constant) == [tag |-> "Constant", range |-> range, constant |-> constant]

BoolElim(range, head, if_true, if_false) ==
    [tag |-> "BoolElim", range |-> range, head |-> head,
     if_true |-> if_true, if_false |-> if_false]

IntElim(range, head, branches, default) ==
    [tag |-> "IntElim", range |-> range, head |-> head,
     branches |-> branches, default |-> default]

Error(range) == [tag |-> "Error", range |-> range]

\* Term::range: the range stored in a leaf or eliminator, and for Ann,
\* FunctionType and FunctionElim the span from the start of the first
\* sub-term to the end of the second.
RECURSIVE TermRange(_)
TermRange(t) ==
    CASE t.tag = "Ann" -> <<TermRange(t.term)[1], TermRange(t.type)[2]>>
      [] t.tag = "FunctionType" ->
            <<TermRange(t.param_type)[1], TermRange(t.body_type)[2]>>
      [] t.tag = "FunctionElim" ->
            <<TermRange(t.head)[1], TermRange(t.argument)[2]>>
      [] OTHER -> t.range

----------------------------------------------------------------------------
(* Values, heads and eliminators: enum Value, enum Head, enum Elim *)

HGlobal(range, name) == [tag |-> "HGlobal", range |-> range, name |-> name]

HItem(range, name) == [tag |-> "HItem", range |-> range, name |-> name]

HError(range) == [tag |-> "HError", range |-> range]

EFunction(range, argument) == [tag |-> "EFunction", range |-> range, argument |-> argument]

EBool(range, if_true, if_false) ==
    [tag |-> "EBool", range |-> range, if_true |-> if_true, if_false |-> if_false]

EInt(range, branches, default) ==
    [tag |-> "EInt", range |-> range, branches |-> branches, default |-> default]

VNeutral(head, elims) == [tag |-> "VNeutral", head |-> head, elims |-> elims]

VUniverse(range, universe) == [tag |-> "VUniverse", range |-> range, universe |-> universe]

VFunctionType(param_type, body_type) ==
    [tag |-> "VFunctionType", param_type |-> param_type, body_type |-> body_type]

VConstant(range, constant) == [tag |-> "VConstant", range |-> range, constant |-> constant]

VError(range) == [tag |-> "VError", range |-> range]

\* No value: eval has not been called yet.
NoValue == [tag |-> "NoValue"]

\* eval never returns: the recursion re-enters the evaluation of a definition
\* that is already being evaluated further up the call stack, with the same
\* arguments, so the call stack grows without bound.
Diverges == [tag |-> "Diverges"]

----------------------------------------------------------------------------
(* Structural equality of terms, ignoring ranges: Term's PartialEq *)

RECURSIVE EraseRanges(_)
EraseRanges(t) ==
    CASE t.tag \in {"Global", "Item"} -> [t EXCEPT !.range = R0]
      [] t.tag \in {"Universe", "Constant", "Error"} -> [t EXCEPT !.range = R0]
      [] t.tag = "Ann" -> Ann(EraseRanges(t.term), EraseRanges(t.type))
      [] t.tag = "FunctionType" ->
            FunctionType(EraseRanges(t.param_type), EraseRanges(t.body_type))
      [] t.tag = "FunctionElim" ->
            FunctionElim(EraseRanges(t.head), EraseRanges(t.argument))
      [] t.tag = "BoolElim" ->
            BoolElim(R0, EraseRanges(t.head),
                     EraseRanges(t.if_true), EraseRanges(t.if_false))
      [] t.tag = "IntElim" ->
            IntElim(R0, EraseRanges(t.head),
                    [k \in DOMAIN t.branches |-> EraseRanges(t.branches[k])],
                    EraseRanges(t.default))

TermEq(t1, t2) == EraseRanges(t1) = EraseRanges(t2)

----------------------------------------------------------------------------
(* eval: semantics.rs lines 9-103 *)

\* The error value built with a default range instead of the reference's.
undefined_reference_default(range) == VError(R0)

\* Lines 17 and 27: a name with no entry evaluates to an error value that
\* carries the range of the reference.
undefined_reference(range) == VError(range)

\* The lookup ignoring the definition: every bound global is left abstract.
global_entry_abstract(gs, name) ==
    IF name \notin DOMAIN gs THEN "undefined" ELSE "abstract"

\* Lines 16-25: the three outcomes of globals.get(name).
global_entry(gs, name) ==
    IF name \notin DOMAIN gs THEN "undefined"
    ELSE IF gs[name].term = None THEN "abstract"
    ELSE "defined"

\* Lines 26-33: the three outcomes of items.get(name).
item_entry(is, name) ==
    IF name \notin DOMAIN is THEN "undefined"
    ELSE IF is[name].tag = "Alias" THEN "alias"
    ELSE "struct"

\* The Global arm evaluating the reference again instead of its definition.
global_definition_self(gs, t) == t

\* Lines 18-19: the definition the Global arm goes on to evaluate.
global_definition(gs, t) == gs[t.name].term

\* Line 28: the alias body the Item arm goes on to evaluate.
alias_body(is, t) == is[t.name].term

\* The spine extended at the front instead of the back.
push_elim_front(head, elims, elim) == VNeutral(head, <<elim>> \o elims)

\* The new eliminator alone, the spine of the neutral value dropped.
push_elim_replace(head, elims, elim) == VNeutral(head, <<elim>>)

\* Lines 44-46, 60-69, 74-76, 91-93: clone the spine and push one eliminator.
push_elim(head, elims, elim) == VNeutral(head, Append(elims, elim))

\* The erroneous scrutinee propagated as an error value.
error_neutral_as_error(head_range, elim) == VError(head_range)

\* Lines 78-81 and 95-98: an eliminator whose scrutinee is neither neutral
\* nor reducible becomes a neutral with an error head.
error_neutral(head_range, elim) == VNeutral(HError(head_range), <<elim>>)

\* Line 48: applying a non-neutral value is an error value.
function_elim_error(range) == VError(range)

\* The reducing arm of BoolElim without the `if elims.is_empty()` guard.
bool_elim_reduces_any_spine(head_value) ==
    /\ head_value.tag = "VNeutral"
    /\ head_value.head.tag = "HGlobal"
    /\ head_value.head.name \in {"true", "false"}

\* The reducing arm with the "false" case left out.
bool_elim_reduces_true_only(head_value) ==
    /\ head_value.tag = "VNeutral"
    /\ head_value.head.tag = "HGlobal"
    /\ head_value.elims = <<>>
    /\ head_value.head.name = "true"

\* Lines 55-58: the guard of the reducing arm of BoolElim.
bool_elim_reduces(head_value) ==
    /\ head_value.tag = "VNeutral"
    /\ head_value.head.tag = "HGlobal"
    /\ head_value.elims = <<>>
    /\ head_value.head.name \in {"true", "false"}

\* The branch lookup never finding a key.
int_elim_branch_default(branches, n, default) == default

\* The branch lookup with no fall-through: a missing key is an error term.
int_elim_branch_strict(branches, n, default) ==
    IF n \in DOMAIN branches THEN branches[n] ELSE Error(R0)

\* Lines 86-89: branches.get(&value), the default when the key is missing.
int_elim_branch(branches, n, default) ==
    IF n \in DOMAIN branches THEN branches[n] ELSE default

\* `active` is the set of definitions whose evaluation is in progress on the
\* call stack.  eval is a pure function of its arguments, so a call that
\* enters a definition already in `active` repeats an enclosing call
\* and never returns.
RECURSIVE eval_rec(_, _, _, _)
eval_rec(gs, is, t, active) ==
    CASE t.tag = "Global" ->
            LET entry == global_entry(gs, t.name) IN
            IF entry = "undefined" THEN undefined_reference(t.range)
            ELSE IF entry = "abstract" THEN VNeutral(HGlobal(t.range, t.name), <<>>)
            ELSE IF <<"Global", t.name>> \in active THEN Diverges
            ELSE eval_rec(gs, is, global_definition(gs, t),
                          active \cup {<<"Global", t.name>>})
      [] t.tag = "Item" ->
            LET entry == item_entry(is, t.name) IN
            IF entry = "undefined" THEN undefined_reference(t.range)
            ELSE IF entry = "struct" THEN VNeutral(HItem(t.range, t.name), <<>>)
            ELSE IF <<"Item", t.name>> \in active THEN Diverges
            ELSE eval_rec(gs, is, alias_body(is, t),
                          active \cup {<<"Item", t.name>>})
      [] t.tag = "Ann" -> eval_rec(gs, is, t.term, active)
      [] t.tag = "Universe" -> VUniverse(t.range, t.universe)
      [] t.tag = "FunctionType" ->
            LET param_type == eval_rec(gs, is, t.param_type, active) IN
            IF param_type = Diverges THEN Diverges
            ELSE LET body_type == eval_rec(gs, is, t.body_type, active) IN
                 IF body_type = Diverges THEN Diverges
                 ELSE VFunctionType(param_type, body_type)
      [] t.tag = "FunctionElim" ->
            LET head == eval_rec(gs, is, t.head, active) IN
            IF head = Diverges THEN Diverges
            ELSE IF head.tag = "VNeutral" THEN
                 LET argument == eval_rec(gs, is, t.argument, active) IN
                 IF argument = Diverges THEN Diverges
                 ELSE push_elim(head.head, head.elims,
                                EFunction(TermRange(t), argument))
            ELSE function_elim_error(TermRange(t))
      [] t.tag = "Constant" -> VConstant(t.range, t.constant)
      [] t.tag = "BoolElim" ->
            LET head == eval_rec(gs, is, t.head, active) IN
            IF head = Diverges THEN Diverges
            ELSE IF bool_elim_reduces(head) THEN
                 IF head.head.name = "true"
                 THEN eval_rec(gs, is, t.if_true, active)
                 ELSE eval_rec(gs, is, t.if_false, active)
            ELSE IF head.tag = "VNeutral" THEN
                 push_elim(head.head, head.elims,
                           EBool(t.range, t.if_true, t.if_false))
            ELSE error_neutral(TermRange(t.head),
                               EBool(t.range, t.if_true, t.if_false))
      [] t.tag = "IntElim" ->
            LET head == eval_rec(gs, is, t.head, active) IN
            IF head = Diverges THEN Diverges
            ELSE IF head.tag = "VConstant" /\ head.constant.kind = "Int" THEN
                 eval_rec(gs, is,
                          int_elim_branch(t.branches, head.constant.val, t.default),
                          active)
            ELSE IF head.tag = "VNeutral" THEN
                 push_elim(head.head, head.elims,
                           EInt(t.range, t.branches, t.default))
            ELSE error_neutral(TermRange(t.head),
                               EInt(t.range, t.branches, t.default))
      [] t.tag = "Error" -> VError(t.range)

eval(gs, is, t) == eval_rec(gs, is, t, {})

----------------------------------------------------------------------------
(* read_back_neutral, read_back: semantics.rs lines 105-144 *)

RECURSIVE read_back(_)
RECURSIVE fold_elims(_, _)

\* Lines 113-129: one step of the fold, wrapping the term read back so far.
read_back_elim(head, elim) ==
    CASE elim.tag = "EFunction" -> FunctionElim(head, read_back(elim.argument))
      [] elim.tag = "EBool" -> BoolElim(elim.range, head, elim.if_true, elim.if_false)
      [] elim.tag = "EInt" -> IntElim(elim.range, head, elim.branches, elim.default)

\* Lines 108-112: the initial accumulator of the fold.
read_back_head(head) ==
    CASE head.tag = "HGlobal" -> Global(head.range, head.name)
      [] head.tag = "HItem" -> Item(head.range, head.name)
      [] head.tag = "HError" -> Error(head.range)

\* The fold taken from the right: the first eliminator ends up outermost.
RECURSIVE fold_elims_right(_, _)
fold_elims_right(acc, elims) ==
    IF elims = <<>> THEN acc
    ELSE read_back_elim(fold_elims_right(acc, Tail(elims)), Head(elims))

\* elims.iter().fold(init, f): left to right.
fold_elims(acc, elims) ==
    IF elims = <<>> THEN acc
    ELSE fold_elims(read_back_elim(acc, Head(elims)), Tail(elims))

read_back_neutral(head, elims) == fold_elims(read_back_head(head), elims)

read_back(v) ==
    CASE v.tag = "VNeutral" -> read_back_neutral(v.head, v.elims)
      [] v.tag = "VUniverse" -> Universe(v.range, v.universe)
      [] v.tag = "VFunctionType" ->
            FunctionType(read_back(v.param_type), read_back(v.body_type))
      [] v.tag = "VConstant" -> Constant(v.range, v.constant)
      [] v.tag = "VError" -> Error(v.range)

----------------------------------------------------------------------------
(* equal: semantics.rs lines 146-162 *)

\* The error arm matching on the left value only.
error_arm_left(v1, v2) == v1.tag = "VError"

\* The error arm left out: errors fall through to "anything else".
error_arm_missing(v1, v2) == FALSE

\* The error arm also taking a neutral with an error head for an error.
error_arm_heads(v1, v2) ==
    \/ v1.tag = "VError" \/ v2.tag = "VError"
    \/ (v1.tag = "VNeutral" /\ v1.head.tag = "HError")
    \/ (v2.tag = "VNeutral" /\ v2.head.tag = "HError")

\* Line 158: the arm `(Value::Error(_), _) | (_, Value::Error(_)) => true`.
error_arm(v1, v2) == v1.tag = "VError" \/ v2.tag = "VError"

\* The Universe arm comparing the whole values, ranges included.
universe_arm_ranged(v1, v2) == v1 = v2

\* Line 152: (Value::Universe(_, universe0), Value::Universe(_, universe1)).
universe_arm(v1, v2) == v1.universe = v2.universe

RECURSIVE equal(_, _)
equal(v1, v2) ==
    IF v1.tag = "VNeutral" /\ v2.tag = "VNeutral" THEN
        TermEq(read_back_neutral(v1.head, v1.elims),
               read_back_neutral(v2.head, v2.elims))
    ELSE IF v1.tag = "VUniverse" /\ v2.tag = "VUniverse" THEN
        universe_arm(v1, v2)
    ELSE IF v1.tag = "VFunctionType" /\ v2.tag = "VFunctionType" THEN
        equal(v2.param_type, v1.param_type) /\ equal(v1.body_type, v2.body_type)
    ELSE IF v1.tag = "VConstant" /\ v2.tag = "VConstant" THEN
        v1.constant = v2.constant
    ELSE IF error_arm(v1, v2) THEN TRUE
    ELSE FALSE

----------------------------------------------------------------------------
(* Inputs of the semantics: globals tables, item maps and terms *)

TBool == Global(R0, "Bool")
TInt == Global(R0, "Int")

\* One entry of Globals: (type, Option<term>).
Entry(type, def) == [type |-> type, term |-> def]

\* The declarations every table holds: the primitive types, the booleans and
\* an abstract boolean `x`.  The name `u` is bound in no table.
BaseGlobals ==
    [n \in {"Bool", "Int", "true", "false", "x"} |->
        IF n \in {"Bool", "Int"} THEN Entry(Universe(R0, 0), None)
        ELSE Entry(TBool, None)]

\* The entries tried for the global `g`: defined by a constant, by itself,
\* by another global, by an item, by an unbound name.
GEntries ==
    { Entry(TInt, Constant(R0, CInt(1))),
      Entry(TInt, Global(R0, "g")),
      Entry(TBool, Global(R0, "true")),
      Entry(TInt, Item(R0, "A")),
      Entry(TInt, Global(R0, "u")) }

GlobalsSet ==
    { [n \in DOMAIN BaseGlobals \cup {"g"} |->
          IF n = "g" THEN e ELSE BaseGlobals[n]] : e \in GEntries }

Alias(t) == [tag |-> "Alias", term |-> t]
Struct == [tag |-> "Struct"]

\* The items tried for `A`; `S` is always a struct, `U` is never bound.
AItems ==
    { Struct,
      Alias(Constant(R0, CInt(0))),
      Alias(Global(R0, "g")),
      Alias(Item(R0, "A")),
      Alias(Item(R0, "S")) }

ItemsSet == { [n \in {"A", "S"} |-> IF n = "A" THEN i ELSE Struct] : i \in AItems }

GlobalNames == {"true", "false", "x", "g", "u"}
ItemNames == {"A", "S", "U"}

\* Leaves, with every range.
LeafTerms ==
    UNION { { Global(r, n) : n \in GlobalNames }
            \cup { Item(r, n) : n \in ItemNames }
            \cup { Constant(r, CInt(0)), Constant(r, CInt(1)), Constant(r, CF32(0)),
                   Universe(r, 0), Error(r) } : r \in RangeSet }

\* Terms used as arguments, branches and defaults: a constant, a reference to
\* the global `g`, a reducible BoolElim and an annotated constant.
BranchTerms ==
    { Constant(R0, CInt(1)),
      Global(R0, "g"),
      BoolElim(R0, Global(R0, "true"), Constant(R0, CInt(0)), Constant(R0, CInt(1))),
      Ann(Constant(R0, CInt(0)), TInt) }

EmptyBranches == [k \in {} |-> None]

BranchMaps ==
    { EmptyBranches,
      [k \in {0} |-> Constant(R0, CInt(1))],
      [k \in {0, 1} |-> IF k = 0 THEN Global(R0, "g") ELSE Constant(R0, CInt(0))] }

\* Every way of putting one constructor around the head term h.
Wrap(h) ==
    { Ann(h, TInt) }
    \cup { FunctionType(h, b) : b \in BranchTerms }
    \cup { FunctionElim(h, b) : b \in BranchTerms }
    \cup { BoolElim(R0, h, b, Constant(R0, CInt(0))) : b \in BranchTerms }
    \cup { IntElim(R0, h, m, Global(R0, "g")) : m \in BranchMaps }

\* One eliminator or constructor around a term that already has one.
Wrap2(h) ==
    { FunctionElim(h, Constant(R0, CInt(1))),
      BoolElim(R0, h, Global(R0, "g"), Constant(R0, CInt(0))),
      IntElim(R0, h, EmptyBranches, Constant(R0, CInt(1))),
      FunctionType(Universe(R0, 0), h) }

Terms1 == UNION { Wrap(h) : h \in LeafTerms }

Terms2 == UNION { Wrap2(h) : h \in Terms1 }

TermInputs == LeafTerms \cup Terms1 \cup Terms2

----------------------------------------------------------------------------
(* The normalisation driver: eval, read_back, and a second round on the term
   read back, as the `norm` command and the elaborator call them *)

\* equal is not called.
IdleEqual ==
    /\ val1 = NoValue
    /\ val2 = NoValue
    /\ val3 = NoValue
    /\ eqs = <<>>
    /\ epc = "idle"

InitEval ==
    /\ IdleEqual
    /\ IdleCli
    /\ IdleEmit
    /\ IdleFront
    /\ globals \in GlobalsSet
    /\ items \in ItemsSet
    /\ term \in TermInputs
    /\ value = NoValue
    /\ quoted = None
    /\ first = None
    /\ pc = "input"

\* value := eval(globals, items, term).  When the call never returns the
\* driver stays in "diverged" for ever.
Eval ==
    /\ pc = "input"
    /\ value' = eval(globals, items, term)
    /\ pc' = IF value' = Diverges THEN "diverged" ELSE "evaluated"
    /\ UNCHANGED <<globals, items, term, quoted, first>>
    /\ UNCHANGED <<equalVars, cliVars, emitVars, frontVars>>

\* quoted := read_back(value)
ReadBack ==
    /\ pc = "evaluated"
    /\ quoted' = read_back(value)
    /\ pc' = "quoted"
    /\ UNCHANGED <<globals, items, term, value, first>>
    /\ UNCHANGED <<equalVars, cliVars, emitVars, frontVars>>

\* The term read back is evaluated again under the same globals and items.
Renormalize ==
    /\ pc = "quoted"
    /\ first = None
    /\ first' = quoted
    /\ term' = quoted
    /\ value' = NoValue
    /\ quoted' = None
    /\ pc' = "input"
    /\ UNCHANGED <<globals, items>>
    /\ UNCHANGED <<equalVars, cliVars, emitVars, frontVars>>

NextEval == Eval \/ ReadBack \/ Renormalize

SpecEval == InitEval /\ [][NextEval]_vars

----------------------------------------------------------------------------
(* The reference graph of the definitions *)

\* The global and item names a term refers to, anywhere in it.
RECURSIVE Refs(_)
Refs(t) ==
    CASE t.tag = "Global" -> {<<"Global", t.name>>}
      [] t.tag = "Item" -> {<<"Item", t.name>>}
      [] t.tag = "Ann" -> Refs(t.term) \cup Refs(t.type)
      [] t.tag = "FunctionType" -> Refs(t.param_type) \cup Refs(t.body_type)
      [] t.tag = "FunctionElim" -> Refs(t.head) \cup Refs(t.argument)
      [] t.tag = "BoolElim" -> Refs(t.head) \cup Refs(t.if_true) \cup Refs(t.if_false)
      [] t.tag = "IntElim" ->
            Refs(t.head) \cup Refs(t.default)
            \cup UNION { Refs(t.branches[k]) : k \in DOMAIN t.branches }
      [] OTHER -> {}

\* The defined globals and the aliases.
DefinedKeys(gs, is) ==
    { <<"Global", n>> : n \in { m \in DOMAIN gs : gs[m].term /= None } }
    \cup { <<"Item", n>> : n \in { m \in DOMAIN is : is[m].tag = "Alias" } }

BodyOf(gs, is, key) == IF key[1] = "Global" THEN gs[key[2]].term ELSE is[key[2]].term

\* The names reachable from the set S in at most n steps through definitions.
RECURSIVE ReachFrom(_, _, _, _)
ReachFrom(gs, is, S, n) ==
    IF n = 0 THEN S
    ELSE ReachFrom(gs, is,
            S \cup UNION { Refs(BodyOf(gs, is, k)) : k \in S \cap DefinedKeys(gs, is) },
            n - 1)

\* No global definition and no alias body refers to itself, directly or
\* through other definitions.
Acyclic(gs, is) ==
    \A k \in DefinedKeys(gs, is) :
        k \notin ReachFrom(gs, is, Refs(BodyOf(gs, is, k)),
                           Cardinality(DefinedKeys(gs, is)))

ValueTags == {"VNeutral", "VUniverse", "VFunctionType", "VConstant", "VError"}

\* eval has been called on `term`; `value` is its outcome.
Called == pc \in {"evaluated", "quoted", "diverged"}

----------------------------------------------------------------------------
(* C1 *)

\* C1 as stated: for every globals table, item map and term, with no
\* acyclicity assumed, eval returns some value after finitely many steps.
C1_EvalTotal == Called => value.tag \in ValueTags

\* C1 amended: when no global definition and no alias body refers to itself,
\* directly or through other definitions, eval returns some value after
\* finitely many steps, for every term.
C1_EvalTotalAcyclic ==
    (Called /\ Acyclic(globals, items)) => (pc /= "diverged" /\ value.tag \in ValueTags)

\* eval has returned the constant behind a chain of two definitions:
\* the global g is defined as the alias A, which is defined as a constant.
C1_Witness ==
    /\ pc = "evaluated"
    /\ term.tag = "Global" /\ term.name = "g"
    /\ globals["g"].term = Item(R0, "A")
    /\ items["A"] = Alias(Constant(R0, CInt(0)))
    /\ Acyclic(globals, items)
    /\ value = VConstant(R0, CInt(0))

----------------------------------------------------------------------------
(* C9 *)

\* C9: eval of Global(r, n) with n absent from globals, and eval of
\* Item(r, n) with n absent from items, returns Value::Error(r), the error
\* carrying the reference's own range; the call returns, it does not fail.
C9_UndefinedReferenceIsError ==
    Called =>
        /\ (term.tag = "Global" /\ term.name \notin DOMAIN globals)
              => (pc /= "diverged" /\ value = VError(term.range))
        /\ (term.tag = "Item" /\ term.name \notin DOMAIN items)
              => (pc /= "diverged" /\ value = VError(term.range))

\* eval has returned for a reference to the unbound global u at a range
\* other than the first one.
C9_Witness ==
    /\ pc = "evaluated"
    /\ term = Global(<<1, 2>>, "u")
    /\ "u" \notin DOMAIN globals
    /\ value = VError(<<1, 2>>)

----------------------------------------------------------------------------
(* C10 *)

\* C10: eval(Global(r,n)) is eval of n's definition when globals defines n and
\* Neutral(Global(r,n)) with an empty spine when n is declared without a
\* definition; eval(Item(r,n)) is eval of the alias body when n is an alias
\* and Neutral(Item(r,n)) with an empty spine when n is a struct.
C10_ReferenceResolution ==
    Called =>
        /\ (term.tag = "Global" /\ term.name \in DOMAIN globals) =>
              IF globals[term.name].term /= None
              THEN value = eval(globals, items, globals[term.name].term)
              ELSE value = VNeutral(HGlobal(term.range, term.name), <<>>)
        /\ (term.tag = "Item" /\ term.name \in DOMAIN items) =>
              IF items[term.name].tag = "Alias"
              THEN value = eval(globals, items, items[term.name].term)
              ELSE value = VNeutral(HItem(term.range, term.name), <<>>)

\* eval has resolved the global g through its definition, the alias A, to
\* the struct S, and the head carries the range written in the alias body.
C10_Witness ==
    /\ pc = "evaluated"
    /\ term = Global(<<1, 2>>, "g")
    /\ globals["g"].term = Item(R0, "A")
    /\ items["A"] = Alias(Item(R0, "S"))
    /\ value = VNeutral(HItem(R0, "S"), <<>>)

----------------------------------------------------------------------------
(* C5 *)

\* C5: for every term and fixed (globals, items), normalising the normal
\* form again gives the same term, ignoring ranges:
\* read_back(eval(read_back(eval(t)))) = read_back(eval(t)).
C5_NormalizeIdempotent ==
    (pc = "quoted" /\ first /= None) => TermEq(quoted, first)

\* The second round has read back a neutral with two eliminators on its
\* spine, an application followed by a BoolElim.
C5_Witness ==
    /\ pc = "quoted"
    /\ first /= None
    /\ value.tag = "VNeutral"
    /\ Len(value.elims) = 2
    /\ value.elims[1].tag = "EFunction"
    /\ value.elims[2].tag = "EBool"
    /\ quoted.tag = "BoolElim"

----------------------------------------------------------------------------
(* C4 *)

\* One value of every constructor, to compare a result against.
ProbeValues ==
    { VUniverse(R0, 0),
      VConstant(R0, CInt(0)),
      VFunctionType(VUniverse(R0, 0), VUniverse(R0, 0)),
      VNeutral(HGlobal(R0, "x"), <<>>),
      VNeutral(HError(R0), <<EBool(R0, Constant(R0, CInt(0)), Constant(R0, CInt(0)))>>),
      VError(R0) }

EqualToEveryValue(v) == \A w \in ProbeValues : equal(v, w) /\ equal(w, v)

\* C4 as stated: eval never returns a value of the form Neutral(Error, ...);
\* an eliminator on an erroneous head evaluates to a value that is equal to
\* every value.
C4_NoErrorNeutral ==
    (Called /\ pc /= "diverged") =>
        /\ ~(value.tag = "VNeutral" /\ value.head.tag = "HError")
        /\ (term.tag \in {"FunctionElim", "BoolElim", "IntElim"}
            /\ eval(globals, items, term.head).tag = "VError")
              => EqualToEveryValue(value)

\* C4 amended: a FunctionElim whose head evaluates to a non-neutral value
\* evaluates to Value::Error(range of the application), which is equal to
\* every value.  A BoolElim whose head evaluates to a non-neutral value, and
\* an IntElim whose head evaluates to a value that is neither neutral nor an
\* Int constant, evaluate to Neutral(Error(range of the head term), [that
\* eliminator]); equal compares it as a neutral, so it is equal to
\* Value::Error and to itself but to no universe, constant or function type.
C4_ErroneousHead ==
    (Called /\ pc /= "diverged"
     /\ term.tag \in {"FunctionElim", "BoolElim", "IntElim"}) =>
        LET head == eval(globals, items, term.head) IN
        /\ (term.tag = "FunctionElim" /\ head.tag /= "VNeutral") =>
              /\ value = VError(TermRange(term))
              /\ EqualToEveryValue(value)
        /\ (term.tag = "BoolElim" /\ head.tag /= "VNeutral") =>
              /\ value = VNeutral(HError(TermRange(term.head)),
                                  <<EBool(term.range, term.if_true, term.if_false)>>)
              /\ equal(value, value)
              /\ equal(value, VError(R0)) /\ equal(VError(R0), value)
              /\ \A w \in ProbeValues :
                    w.tag \in {"VUniverse", "VConstant", "VFunctionType"}
                        => (~equal(value, w) /\ ~equal(w, value))
        /\ (term.tag = "IntElim" /\ head.tag /= "VNeutral"
            /\ ~(head.tag = "VConstant" /\ head.constant.kind = "Int")) =>
              /\ value = VNeutral(HError(TermRange(term.head)),
                                  <<EInt(term.range, term.branches, term.default)>>)
              /\ equal(value, value)
              /\ equal(value, VError(R0)) /\ equal(VError(R0), value)
              /\ \A w \in ProbeValues :
                    w.tag \in {"VUniverse", "VConstant", "VFunctionType"}
                        => (~equal(value, w) /\ ~equal(w, value))

\* eval has returned for a BoolElim whose scrutinee is the unbound global u,
\* which evaluates to Value::Error.
C4_Witness ==
    /\ pc = "evaluated"
    /\ term.tag = "BoolElim"
    /\ term.head = Global(<<1, 2>>, "u")
    /\ eval(globals, items, term.head) = VError(<<1, 2>>)
    /\ value.tag = "VNeutral"
    /\ value.head = HError(<<1, 2>>)

----------------------------------------------------------------------------
(* Typing of closed core terms, for the tables above: the types are Bool,
   Int, F32, Format and Type; "ill" stands for no type.  No name of these
   tables has a function type, so no application is well typed. *)

TypeName(ty) ==
    CASE ty.tag = "Global" /\ ty.name \in {"Bool", "Int"} -> ty.name
      [] ty.tag = "Universe" -> "Type"
      [] OTHER -> "ill"

\* Only called when Acyclic(gs, is).
RECURSIVE synth(_, _, _)
synth(gs, is, t) ==
    CASE t.tag = "Global" ->
            IF t.name \in DOMAIN gs THEN TypeName(gs[t.name].type) ELSE "ill"
      [] t.tag = "Item" ->
            IF t.name \notin DOMAIN is THEN "ill"
            ELSE IF is[t.name].tag = "Struct" THEN "Format"
            ELSE synth(gs, is, is[t.name].term)
      [] t.tag = "Ann" ->
            IF TypeName(t.type) /= "ill" /\ synth(gs, is, t.term) = TypeName(t.type)
            THEN TypeName(t.type) ELSE "ill"
      [] t.tag = "Universe" -> "Type"
      [] t.tag = "FunctionType" ->
            IF synth(gs, is, t.param_type) = "Type" /\ synth(gs, is, t.body_type) = "Type"
            THEN "Type" ELSE "ill"
      [] t.tag = "FunctionElim" -> "ill"
      [] t.tag = "Constant" -> t.constant.kind
      [] t.tag = "BoolElim" ->
            IF synth(gs, is, t.head) = "Bool"
               /\ synth(gs, is, t.if_true) = synth(gs, is, t.if_false)
            THEN synth(gs, is, t.if_true) ELSE "ill"
      [] t.tag = "IntElim" ->
            IF synth(gs, is, t.head) = "Int"
               /\ \A k \in DOMAIN t.branches :
                     synth(gs, is, t.branches[k]) = synth(gs, is, t.default)
            THEN synth(gs, is, t.default) ELSE "ill"
      [] t.tag = "Error" -> "ill"

\* Every definition is acyclic and has its declared type.
WellTypedTables(gs, is) ==
    /\ Acyclic(gs, is)
    /\ \A n \in DOMAIN gs :
          gs[n].term /= None =>
              /\ TypeName(gs[n].type) /= "ill"
              /\ synth(gs, is, gs[n].term) = TypeName(gs[n].type)
    /\ \A n \in DOMAIN is :
          is[n].tag = "Alias" => synth(gs, is, is[n].term) /= "ill"

\* t holds no redex: no Ann, no reference to a defined global or an alias,
\* no BoolElim on the global true or false, no IntElim on an integer
\* constant.  With inBranches the branches and defaults of the eliminators
\* are searched too, without it only the scrutinees.
RECURSIVE NoRedex(_, _, _, _)
NoRedex(gs, is, t, inBranches) ==
    CASE t.tag = "Global" -> ~(t.name \in DOMAIN gs /\ gs[t.name].term /= None)
      [] t.tag = "Item" -> ~(t.name \in DOMAIN is /\ is[t.name].tag = "Alias")
      [] t.tag = "Ann" -> FALSE
      [] t.tag = "FunctionType" ->
            NoRedex(gs, is, t.param_type, inBranches)
            /\ NoRedex(gs, is, t.body_type, inBranches)
      [] t.tag = "FunctionElim" ->
            NoRedex(gs, is, t.head, inBranches) /\ NoRedex(gs, is, t.argument, inBranches)
      [] t.tag = "BoolElim" ->
            /\ NoRedex(gs, is, t.head, inBranches)
            /\ ~(t.head.tag = "Global" /\ t.head.name \in {"true", "false"})
            /\ inBranches =>
                  /\ NoRedex(gs, is, t.if_true, inBranches)
                  /\ NoRedex(gs, is, t.if_false, inBranches)
      [] t.tag = "IntElim" ->
            /\ NoRedex(gs, is, t.head, inBranches)
            /\ ~(t.head.tag = "Constant" /\ t.head.constant.kind = "Int")
            /\ inBranches =>
                  /\ NoRedex(gs, is, t.default, inBranches)
                  /\ \A k \in DOMAIN t.branches :
                        NoRedex(gs, is, t.branches[k], inBranches)
      [] OTHER -> TRUE

----------------------------------------------------------------------------
(* C6 *)

\* C6 as stated: for every closed well-typed term t, read_back(eval(t)) holds
\* no redex anywhere, the branches of stuck eliminators included.
C6_FullyNormal ==
    (pc = "quoted" /\ WellTypedTables(globals, items)
     /\ synth(globals, items, term) /= "ill")
        => NoRedex(globals, items, quoted, TRUE)

\* C6 amended: for every term t whose evaluation returns, read_back(eval(t))
\* holds no redex outside the branches and defaults of stuck eliminators: at
\* the head, along the spine, in the arguments of applications and in the
\* components of function types there is no Ann, no reference to a defined
\* global or an alias, no BoolElim on the global true or false and no
\* IntElim on an integer constant.  The branches and the default of a stuck
\* BoolElim or IntElim are the sub-terms of t as written, unevaluated.
C6_NormalOutsideBranches ==
    pc = "quoted" =>
        /\ NoRedex(globals, items, quoted, FALSE)
        /\ (term.tag = "BoolElim"
            /\ eval(globals, items, term.head).tag = "VNeutral"
            /\ ~bool_elim_reduces(eval(globals, items, term.head))) =>
              /\ quoted.tag = "BoolElim"
              /\ quoted.if_true = term.if_true /\ quoted.if_false = term.if_false
        /\ (term.tag = "IntElim"
            /\ eval(globals, items, term.head).tag = "VNeutral") =>
              /\ quoted.tag = "IntElim"
              /\ quoted.branches = term.branches /\ quoted.default = term.default

\* A well-typed BoolElim on the abstract boolean x has been read back: it is
\* stuck, and its first branch still refers to the defined global g.
C6_Witness ==
    /\ pc = "quoted"
    /\ WellTypedTables(globals, items)
    /\ term = BoolElim(R0, Global(R0, "x"), Global(R0, "g"), Constant(R0, CInt(0)))
    /\ synth(globals, items, term) = "Int"
    /\ globals["g"].term = Constant(R0, CInt(1))
    /\ quoted = term

----------------------------------------------------------------------------
(* Inputs of equal: values *)

\* Values without sub-values, and neutrals with at most one eliminator.
LeafValues ==
    UNION { { VUniverse(r, l) : l \in 0..MaxLevel }
            \cup { VConstant(r, CInt(0)), VError(r),
                   VNeutral(HGlobal(r, "x"), <<>>),
                   VNeutral(HGlobal(R0, "x"), <<EFunction(r, VError(R0))>>) }
            : r \in RangeSet }
    \cup { VConstant(R0, CInt(1)), VConstant(R0, CF32(0)),
           VNeutral(HItem(R0, "S"), <<>>),
           VNeutral(HGlobal(R0, "x"), <<EFunction(R0, VUniverse(R0, 0))>>),
           VNeutral(HError(R0),
                    <<EBool(R0, Constant(R0, CInt(0)), Constant(R0, CInt(1)))>>) }

\* The parameter and body types of the function types.
ComponentValues ==
    UNION { { VUniverse(r, 0),
              VNeutral(HError(r),
                       <<EBool(R0, Constant(R0, CInt(0)), Constant(R0, CInt(1)))>>) }
            : r \in RangeSet }
    \cup { VUniverse(R0, MaxLevel), VError(R0), VConstant(R0, CInt(0)) }

FunctionValues ==
    { VFunctionType(p, b) : p \in ComponentValues, b \in ComponentValues }

\* Function types with a function type as parameter or body.
NestedFunctionValues ==
    { VFunctionType(VFunctionType(p, VUniverse(R0, 0)), VUniverse(R0, 0)) :
        p \in {VError(R0), VUniverse(R0, 0), VUniverse(R0, MaxLevel)} }
    \cup { VFunctionType(VUniverse(R0, 0), VFunctionType(VUniverse(R0, 0), b)) :
        b \in {VError(R0), VUniverse(R0, 0)} }

ValueInputs == LeafValues \cup FunctionValues \cup NestedFunctionValues

----------------------------------------------------------------------------
(* The equality driver: equal called on every pair of three values, as the
   elaborator calls it on the types it compares *)

\* eval is not called.
IdleEval ==
    /\ globals = BaseGlobals
    /\ items = [n \in {"S"} |-> Struct]
    /\ term = None
    /\ value = NoValue
    /\ quoted = None
    /\ first = None
    /\ pc = "idle"

InitEqual ==
    /\ IdleEval
    /\ IdleCli
    /\ IdleEmit
    /\ IdleFront
    /\ val1 \in ValueInputs
    /\ val2 \in ValueInputs
    /\ val3 \in ValueInputs
    /\ eqs = <<>>
    /\ epc = "input"

\* eqs := the results of equal on the pairs of val1, val2, val3.
Equal ==
    /\ epc = "input"
    /\ eqs' = [aa |-> equal(val1, val1),
               ab |-> equal(val1, val2), ba |-> equal(val2, val1),
               bc |-> equal(val2, val3), cb |-> equal(val3, val2),
               ac |-> equal(val1, val3), ca |-> equal(val3, val1)]
    /\ epc' = "compared"
    /\ UNCHANGED <<val1, val2, val3>>
    /\ UNCHANGED <<evalVars, cliVars, emitVars, frontVars>>

NextEqual == Equal

SpecEqual == InitEqual /\ [][NextEqual]_vars

Compared == epc = "compared"

\* v is not Value::Error and no parameter or body type in it is, at any
\* depth of function types.
RECURSIVE ErrorFree(_)
ErrorFree(v) ==
    /\ v.tag /= "VError"
    /\ v.tag = "VFunctionType" => (ErrorFree(v.param_type) /\ ErrorFree(v.body_type))

----------------------------------------------------------------------------
(* C2 *)

\* C2 as stated: for any three values a, b, c none of which is
\* Value::Error, equal(a,b) and equal(b,c) imply equal(a,c).
C2_Transitive ==
    (Compared /\ val1.tag /= "VError" /\ val2.tag /= "VError" /\ val3.tag /= "VError")
        => ((eqs.ab /\ eqs.bc) => eqs.ac)

\* C2 amended: for any three values none of which is Value::Error or a
\* function type with a Value::Error as parameter or body type at any depth,
\* equal(a,b) and equal(b,c) imply equal(a,c); neutrals whose heads or
\* arguments are errors are included.
C2_TransitiveErrorFree ==
    (Compared /\ ErrorFree(val1) /\ ErrorFree(val2) /\ ErrorFree(val3))
        => ((eqs.ab /\ eqs.bc) => eqs.ac)

\* Three different function types, two of them with an error-headed neutral
\* as body type, have been found equal pairwise.
C2_Witness ==
    /\ Compared
    /\ val1.tag = "VFunctionType" /\ val2.tag = "VFunctionType"
    /\ val3.tag = "VFunctionType"
    /\ val1 /= val2 /\ val2 /= val3 /\ val1 /= val3
    /\ val1.body_type.tag = "VNeutral" /\ val1.body_type.head.tag = "HError"
    /\ ErrorFree(val1) /\ ErrorFree(val2) /\ ErrorFree(val3)
    /\ eqs.ab /\ eqs.bc /\ eqs.ac

----------------------------------------------------------------------------
(* C3 *)

\* C3: for every value v, equal(Value::Error(_), v) and
\* equal(v, Value::Error(_)) are true, whatever constructor v has.
C3_ErrorAbsorbs ==
    (Compared /\ val1.tag = "VError") => (eqs.ab /\ eqs.ba /\ eqs.ac /\ eqs.ca)

\* An error value has been compared, on both sides, with a function type
\* and with a neutral.
C3_Witness ==
    /\ Compared
    /\ val1.tag = "VError"
    /\ val2.tag = "VFunctionType" /\ val2.param_type.tag = "VUniverse"
    /\ val3.tag = "VNeutral"
    /\ eqs.ab /\ eqs.ba /\ eqs.ac /\ eqs.ca

----------------------------------------------------------------------------
(* C7 *)

\* C7: for every value v (neutral, universe, function type, constant or
\* error), equal(v, v) is true.
C7_Reflexive == Compared => eqs.aa

\* A function type whose parameter is a neutral with an eliminator has been
\* compared with itself.
C7_Witness ==
    /\ Compared
    /\ val1.tag = "VFunctionType"
    /\ val1.param_type.tag = "VNeutral" /\ val1.param_type.elims /= <<>>
    /\ eqs.aa

----------------------------------------------------------------------------
(* C8 *)

\* C8: for all values a and b, equal(a, b) = equal(b, a), in particular for
\* function types, whose parameters are compared with the arguments swapped.
C8_Symmetric ==
    Compared => (eqs.ab = eqs.ba /\ eqs.bc = eqs.cb /\ eqs.ac = eqs.ca)

\* Two function types with different parameter types and the same body type
\* have been compared both ways and found unequal both ways.
C8_Witness ==
    /\ Compared
    /\ val1.tag = "VFunctionType" /\ val2.tag = "VFunctionType"
    /\ val1.param_type.tag = "VUniverse" /\ val2.param_type.tag = "VConstant"
    /\ val1.body_type = val2.body_type
    /\ ~eqs.ab /\ ~eqs.ba

----------------------------------------------------------------------------
(* C11 *)

\* C11: eval(BoolElim(r, h, t, f)) is eval(t) when eval(h) is the neutral
\* Global "true" with an empty spine, eval(f) when it is the neutral Global
\* "false" with an empty spine, and for every other neutral (another global
\* name, an Item head, true/false with a non-empty spine) the same neutral
\* with Bool(r, t, f) appended as the last eliminator, without reduction.
C11_BoolElim ==
    (Called /\ term.tag = "BoolElim"
     /\ eval(globals, items, term.head).tag = "VNeutral") =>
        LET head == eval(globals, items, term.head) IN
        IF head.head.tag = "HGlobal" /\ head.elims = <<>> /\ head.head.name = "true"
        THEN value = eval(globals, items, term.if_true)
        ELSE IF head.head.tag = "HGlobal" /\ head.elims = <<>>
                /\ head.head.name = "false"
        THEN value = eval(globals, items, term.if_false)
        ELSE value = VNeutral(head.head,
                        Append(head.elims, EBool(term.range, term.if_true, term.if_false)))

\* eval has returned for a BoolElim whose scrutinee is the global true
\* applied to an argument: the spine has the application, then the Bool
\* eliminator, and the head is still true.
C11_Witness ==
    /\ pc = "evaluated"
    /\ term.tag = "BoolElim"
    /\ term.head.tag = "FunctionElim"
    /\ term.head.head = Global(R0, "true")
    /\ value.tag = "VNeutral"
    /\ value.head = HGlobal(R0, "true")
    /\ Len(value.elims) = 2
    /\ value.elims[1].tag = "EFunction"
    /\ value.elims[2] = EBool(term.range, term.if_true, term.if_false)

----------------------------------------------------------------------------
(* C12 *)

\* The value is neither neutral nor an integer constant: a float constant,
\* a universe, a function type or an error.
OtherHead(v) ==
    /\ v.tag \in {"VConstant", "VUniverse", "VFunctionType", "VError"}
    /\ ~(v.tag = "VConstant" /\ v.constant.kind = "Int")

\* C12: when eval(head) is Constant(Int(n)), eval(IntElim(r, head, branches,
\* dflt)) is eval(branches[n]) if n is a key of branches and eval(dflt)
\* otherwise; when eval(head) is neutral the Int eliminator is appended to
\* its spine; for any other head value the result is
\* Neutral(Error, [Int(r, branches, dflt)]).
C12_IntElim ==
    (Called /\ term.tag = "IntElim"
     /\ eval(globals, items, term.head) /= Diverges) =>
        LET head == eval(globals, items, term.head)
            elim == EInt(term.range, term.branches, term.default)
        IN
        /\ (head.tag = "VConstant" /\ head.constant.kind = "Int") =>
              IF head.constant.val \in DOMAIN term.branches
              THEN value = eval(globals, items, term.branches[head.constant.val])
              ELSE value = eval(globals, items, term.default)
        /\ head.tag = "VNeutral" =>
              value = VNeutral(head.head, Append(head.elims, elim))
        /\ OtherHead(head) =>
              value = VNeutral(HError(TermRange(term.head)), <<elim>>)

\* eval has returned for an IntElim on the constant 1 with branches for 0
\* and 1: the result is the value of the branch for 1, not of the default.
C12_Witness ==
    /\ pc = "evaluated"
    /\ term.tag = "IntElim"
    /\ term.head.tag = "Constant" /\ term.head.constant = CInt(1)
    /\ DOMAIN term.branches = {0, 1}
    /\ term.branches[1] = Constant(R0, CInt(0))
    /\ term.default = Global(R0, "g")
    /\ globals["g"].term = Constant(R0, CInt(1))
    /\ value = VConstant(R0, CInt(0))

----------------------------------------------------------------------------
(* C13 *)

\* C13 as stated: for every globals, items, scrutinee h and default d,
\* eval(IntElim(r, h, {}, d)) = eval(d).
C13_NoBranchesIsDefault ==
    (Called /\ term.tag = "IntElim" /\ DOMAIN term.branches = {}
     /\ eval(globals, items, term.head) /= Diverges)
        => value = eval(globals, items, term.default)

\* C13 amended: an IntElim with no branches evaluates to its default
\* whenever its scrutinee evaluates to an integer constant; when the
\* scrutinee evaluates to a neutral the IntElim is stuck on it, and for any
\* other scrutinee value it is the neutral with an error head, and in both
\* cases the default is not evaluated.
C13_NoBranchesConstantIsDefault ==
    (Called /\ term.tag = "IntElim" /\ DOMAIN term.branches = {}
     /\ eval(globals, items, term.head) /= Diverges) =>
        LET head == eval(globals, items, term.head)
            elim == EInt(term.range, term.branches, term.default)
        IN
        /\ (head.tag = "VConstant" /\ head.constant.kind = "Int")
              => value = eval(globals, items, term.default)
        /\ head.tag = "VNeutral"
              => value = VNeutral(head.head, Append(head.elims, elim))
        /\ OtherHead(head)
              => value = VNeutral(HError(TermRange(term.head)), <<elim>>)

\* eval has returned the value of the default for an IntElim with no
\* branches on an integer constant.
C13_Witness ==
    /\ pc = "evaluated"
    /\ term.tag = "IntElim"
    /\ DOMAIN term.branches = {}
    /\ term.head.tag = "Constant" /\ term.head.constant = CInt(0)
    /\ term.default = Global(R0, "g")
    /\ globals["g"].term = Global(R0, "true")
    /\ value = VNeutral(HGlobal(R0, "true"), <<>>)

----------------------------------------------------------------------------
(* C14 *)

\* C14: if eval(head) is Neutral(h, es) then eval(FunctionElim(head, arg)) is
\* Neutral(h, es ++ [Function(range, eval(arg))]), so a chain of applications
\* yields a spine in application order, innermost first; if eval(head) is a
\* non-neutral value the result is Value::Error(range of the application).
C14_FunctionElim ==
    (Called /\ pc /= "diverged" /\ term.tag = "FunctionElim") =>
        LET head == eval(globals, items, term.head) IN
        /\ head.tag = "VNeutral" =>
              value = VNeutral(head.head,
                        Append(head.elims,
                               EFunction(TermRange(term),
                                         eval(globals, items, term.argument))))
        /\ head.tag /= "VNeutral" => value = VError(TermRange(term))
        /\ (head.tag = "VNeutral" /\ term.head.tag = "FunctionElim"
            /\ eval(globals, items, term.head.head).tag = "VNeutral") =>
              LET inner == eval(globals, items, term.head.head) IN
              value.elims =
                  inner.elims
                  \o <<EFunction(TermRange(term.head),
                                 eval(globals, items, term.head.argument)),
                       EFunction(TermRange(term),
                                 eval(globals, items, term.argument))>>

\* eval has returned for (x g) 1 with g defined as the constant 1: the
\* spine holds the inner application first, then the outer one.
C14_Witness ==
    /\ pc = "evaluated"
    /\ term = FunctionElim(FunctionElim(Global(<<1, 2>>, "x"), Global(R0, "g")),
                           Constant(R0, CInt(1)))
    /\ globals["g"].term = Global(R0, "true")
    /\ value = VNeutral(HGlobal(<<1, 2>>, "x"),
                        <<EFunction(<<1, 1>>, VNeutral(HGlobal(R0, "true"), <<>>)),
                          EFunction(<<1, 1>>, VConstant(R0, CInt(1)))>>)

----------------------------------------------------------------------------
(* C15 *)

\* A value with every source range in it replaced by one range: the ranges
\* of heads, eliminators, universes, constants and errors, and those of the
\* terms kept in Bool and Int eliminators.
RECURSIVE EraseValueRanges(_)
EraseElimRanges(elim) ==
    CASE elim.tag = "EFunction" -> EFunction(R0, EraseValueRanges(elim.argument))
      [] elim.tag = "EBool" ->
            EBool(R0, EraseRanges(elim.if_true), EraseRanges(elim.if_false))
      [] elim.tag = "EInt" ->
            EInt(R0, [k \in DOMAIN elim.branches |-> EraseRanges(elim.branches[k])],
                 EraseRanges(elim.default))

EraseValueRanges(v) ==
    CASE v.tag = "VNeutral" ->
            VNeutral([v.head EXCEPT !.range = R0],
                     [i \in 1..Len(v.elims) |-> EraseElimRanges(v.elims[i])])
      [] v.tag = "VFunctionType" ->
            VFunctionType(EraseValueRanges(v.param_type),
                          EraseValueRanges(v.body_type))
      [] OTHER -> [v EXCEPT !.range = R0]

\* C15: for any two values that differ only in source ranges, equal returns
\* the same result as for identical values, and either of them can stand for
\* the other in a comparison with a third value; two neutrals are equal
\* exactly when their read-back terms are structurally equal once ranges are
\* ignored.
C15_RangesIgnored ==
    Compared =>
        /\ EraseValueRanges(val1) = EraseValueRanges(val2) =>
              /\ eqs.ab = eqs.aa
              /\ eqs.ba = eqs.aa
              /\ eqs.ac = eqs.bc
              /\ eqs.ca = eqs.cb
        /\ (val1.tag = "VNeutral" /\ val2.tag = "VNeutral") =>
              (eqs.ab <=> EraseRanges(read_back(val1)) = EraseRanges(read_back(val2)))

\* Two universes of the same level at different ranges have been found
\* equal, and both unequal to a third universe of another level.
C15_Witness ==
    /\ Compared
    /\ val1.tag = "VUniverse" /\ val2.tag = "VUniverse"
    /\ val1.range /= val2.range
    /\ val1.universe = val2.universe
    /\ eqs.ab /\ eqs.ba
    /\ val3.tag = "VUniverse" /\ val3.universe /= val1.universe
    /\ ~eqs.ac /\ ~eqs.bc

----------------------------------------------------------------------------
(* The command line front end: main.rs lines 79-169 and 238-257 *)

MaxMessages == 3

\* codespan_reporting's Severity, in its derived order.
Severities == <<"Help", "Note", "Warning", "Error", "Bug">>

SeverityRank(severity) == CHOOSE i \in 1..Len(Severities) : Severities[i] = severity

\* Message::to_diagnostic: the diagnostic of a message has the severity of
\* the message's kind.
to_diagnostic(message) == [id |-> message.id, severity |-> message.severity]

\* Lines 186-196: the diagnostic the panic hook builds.
panic_diagnostic == [id |-> 0, severity |-> "Bug"]

\* The flag overwritten by the last diagnostic instead of accumulated.
is_ok_update_last(ok, diagnostic) ==
    SeverityRank(diagnostic.severity) < SeverityRank("Error")

\* Line 253: is_ok &= diagnostic.severity < Severity::Error.
is_ok_update(ok, diagnostic) ==
    ok /\ SeverityRank(diagnostic.severity) < SeverityRank("Error")

\* The messages an elaboration can leave in its context, in the order it
\* produced them.
ReportInputs ==
    UNION { { [i \in 1..n |-> [id |-> i, severity |-> f[i]]] :
                f \in [1..n -> { Severities[k] : k \in 1..Len(Severities) }] }
            : n \in 0..MaxMessages }

InitCli ==
    /\ IdleEval
    /\ IdleEqual
    /\ IdleEmit
    /\ IdleFront
    /\ command \in {"elab", "norm", "type"}
    /\ allow_errors \in BOOLEAN
    /\ input \in {"missing", "malformed", "parsed"}
    /\ reports \in ReportInputs
    /\ messages = <<>>
    /\ stderr = <<>>
    /\ is_ok = TRUE
    /\ stdout = <<>>
    /\ exit_code = <<>>
    /\ steps = <<>>
    /\ surface_resets = 0
    /\ cpc = "start"

\* An unwrap() fails: the panic hook emits its bug diagnostic and the
\* process ends with the status of a panic.
Panic ==
    /\ stderr' = Append(stderr, panic_diagnostic)
    /\ exit_code' = <<101>>
    /\ cpc' = "panicked"
    /\ UNCHANGED <<messages, is_ok, stdout, steps, surface_resets>>

\* main moves on after the call `step`.
Proceed(step, next) ==
    /\ steps' = Append(steps, step)
    /\ cpc' = next
    /\ UNCHANGED exit_code

\* load_input: File::open(path).unwrap(), read_to_string(..).unwrap().
LoadInput ==
    /\ cpc = "start"
    /\ IF input = "missing" THEN Panic
       ELSE /\ Proceed("load_input", "loaded")
            /\ UNCHANGED <<messages, stderr, is_ok, stdout, surface_resets>>
    /\ UNCHANGED <<command, allow_errors, input, reports>>
    /\ UNCHANGED <<evalVars, equalVars, emitVars, frontVars>>

\* parse_term: surface::Term::parse(..).unwrap().
ParseTerm ==
    /\ cpc = "loaded"
    /\ IF input = "malformed" THEN Panic
       ELSE /\ Proceed("parse_term", "parsed")
            /\ UNCHANGED <<messages, stderr, is_ok, stdout, surface_resets>>
    /\ UNCHANGED <<command, allow_errors, input, reports>>
    /\ UNCHANGED <<evalVars, equalVars, emitVars, frontVars>>

\* context.synth(&surface_term): the elaboration records its messages.
Synth ==
    /\ cpc = "parsed"
    /\ messages' = reports
    /\ Proceed("synth", "synthed")
    /\ UNCHANGED <<stderr, is_ok, stdout, surface_resets>>
    /\ UNCHANGED <<command, allow_errors, input, reports>>
    /\ UNCHANGED <<evalVars, equalVars, emitVars, frontVars>>

\* Line 122: context.normalize(&core_scope, &term), in norm only.
Normalize ==
    /\ cpc = "synthed"
    /\ command = "norm"
    /\ Proceed("normalize", "normalized")
    /\ UNCHANGED <<messages, stderr, is_ok, stdout, surface_resets>>
    /\ UNCHANGED <<command, allow_errors, input, reports>>
    /\ UNCHANGED <<evalVars, equalVars, emitVars, frontVars>>

\* context.quote(&core_scope, &type), then the call of check_elaboration
\* with `let mut is_ok = true`.
Quote ==
    /\ \/ cpc = "synthed" /\ command /= "norm"
       \/ cpc = "normalized"
    /\ is_ok' = TRUE
    /\ Proceed("quote", "draining")
    /\ UNCHANGED <<messages, stderr, stdout, surface_resets>>
    /\ UNCHANGED <<command, allow_errors, input, reports>>
    /\ UNCHANGED <<evalVars, equalVars, emitVars, frontVars>>

\* Lines 247-254: one round of `for message in context.drain_messages()`.
EmitMessage ==
    /\ cpc = "draining"
    /\ messages /= <<>>
    /\ LET diagnostic == to_diagnostic(Head(messages)) IN
       /\ stderr' = Append(stderr, diagnostic)
       /\ is_ok' = is_ok_update(is_ok, diagnostic)
    /\ messages' = Tail(messages)
    /\ UNCHANGED <<stdout, exit_code, steps, surface_resets, cpc>>
    /\ UNCHANGED <<command, allow_errors, input, reports>>
    /\ UNCHANGED <<evalVars, equalVars, emitVars, frontVars>>

\* Line 256 and `check_elaboration(..) || args.allow_errors`.
CheckElaboration ==
    /\ cpc = "draining"
    /\ messages = <<>>
    /\ Proceed("check_elaboration", IF is_ok \/ allow_errors THEN "checked" ELSE "failed")
    /\ UNCHANGED <<messages, stderr, is_ok, stdout, surface_resets>>
    /\ UNCHANGED <<command, allow_errors, input, reports>>
    /\ UNCHANGED <<evalVars, equalVars, emitVars, frontVars>>

\* The surface arena reset on the failure path as well.
ResetSurfaceAlways ==
    /\ cpc \in {"checked", "failed"}
    /\ surface_resets' = surface_resets + 1
    /\ Proceed("reset", "reset")
    /\ UNCHANGED <<messages, stderr, is_ok, stdout>>
    /\ UNCHANGED <<command, allow_errors, input, reports>>
    /\ UNCHANGED <<evalVars, equalVars, emitVars, frontVars>>

\* surface_scope.reset().
ResetSurface ==
    /\ cpc = "checked"
    /\ surface_resets' = surface_resets + 1
    /\ Proceed("reset", "reset")
    /\ UNCHANGED <<messages, stderr, is_ok, stdout>>
    /\ UNCHANGED <<command, allow_errors, input, reports>>
    /\ UNCHANGED <<evalVars, equalVars, emitVars, frontVars>>

\* distillation::Context::check on the term (not in type) and on the type.
Distill ==
    /\ cpc = "reset"
    /\ Proceed("distill", "distilled")
    /\ UNCHANGED <<messages, stderr, is_ok, stdout, surface_resets>>
    /\ UNCHANGED <<command, allow_errors, input, reports>>
    /\ UNCHANGED <<evalVars, equalVars, emitVars, frontVars>>

\* The document println! writes: the annotated term, or the type alone.
printed_doc(cmd) ==
    CASE cmd = "elab" -> [doc |-> "ann", term |-> "elaborated"]
      [] cmd = "norm" -> [doc |-> "ann", term |-> "normalized"]
      [] cmd = "type" -> [doc |-> "term", term |-> "type"]

PrintDoc ==
    /\ cpc = "distilled"
    /\ stdout' = Append(stdout, printed_doc(command))
    /\ Proceed("println", "printed")
    /\ UNCHANGED <<messages, stderr, is_ok, surface_resets>>
    /\ UNCHANGED <<command, allow_errors, input, reports>>
    /\ UNCHANGED <<evalVars, equalVars, emitVars, frontVars>>

\* std::process::exit(0) and std::process::exit(1).
Exit ==
    /\ cpc \in {"printed", "failed"}
    /\ exit_code' = IF cpc = "printed" THEN <<0>> ELSE <<1>>
    /\ cpc' = "exited"
    /\ UNCHANGED <<messages, stderr, is_ok, stdout, steps, surface_resets>>
    /\ UNCHANGED <<command, allow_errors, input, reports>>
    /\ UNCHANGED <<evalVars, equalVars, emitVars, frontVars>>

NextCli ==
    \/ LoadInput
    \/ ParseTerm
    \/ Synth
    \/ Normalize
    \/ Quote
    \/ EmitMessage
    \/ CheckElaboration
    \/ ResetSurface
    \/ Distill
    \/ PrintDoc
    \/ Exit

SpecCli == InitCli /\ [][NextCli]_vars

\* The diagnostics check_elaboration has emitted: those on stderr that do
\* not come from the panic hook.
Drained == SelectSeq(stderr, LAMBDA d : d /= panic_diagnostic)

BelowError(diagnostic) == SeverityRank(diagnostic.severity) < SeverityRank("Error")

----------------------------------------------------------------------------
(* C16 *)

\* C16: for each of the commands elab, norm and type, the process exits with
\* code 0 iff --allow-errors is set or no drained diagnostic has severity
\* Error or higher (Bug counts as higher; Warning, Note, Help do not), and
\* exits with code 1 otherwise; when it exits 1 nothing is printed to
\* standard output.
C16_ExitCode ==
    exit_code /= <<>> =>
        LET ok == allow_errors
                  \/ \A i \in 1..Len(Drained) : BelowError(Drained[i])
        IN
        /\ exit_code = <<0>> <=> ok
        /\ ~ok => exit_code = <<1>>
        /\ exit_code = <<1>> => stdout = <<>>

----------------------------------------------------------------------------
(* C17 *)

\* C17: check_elaboration emits every message yielded by drain_messages
\* exactly once, in the order they were produced, and keeps emitting after a
\* message of Error severity; its result is true iff all emitted diagnostics
\* are below Error severity.
C17_DrainAll ==
    /\ cpc = "draining" =>
          /\ stderr \o [i \in 1..Len(messages) |-> to_diagnostic(messages[i])]
                = [i \in 1..Len(reports) |-> to_diagnostic(reports[i])]
          /\ is_ok <=> \A i \in 1..Len(stderr) : BelowError(stderr[i])
    /\ cpc \in {"checked", "failed"} =>
          /\ stderr = [i \in 1..Len(reports) |-> to_diagnostic(reports[i])]
          /\ messages = <<>>
          /\ is_ok <=> \A i \in 1..Len(stderr) : BelowError(stderr[i])
          /\ cpc = "checked" <=> (is_ok \/ allow_errors)

\* check_elaboration has returned false after emitting an Error, then a
\* Warning, then a Note.
C17_Witness ==
    /\ cpc = "failed"
    /\ Len(stderr) = 3
    /\ stderr[1] = [id |-> 1, severity |-> "Error"]
    /\ stderr[2] = [id |-> 2, severity |-> "Warning"]
    /\ stderr[3] = [id |-> 3, severity |-> "Note"]
    /\ ~is_ok

----------------------------------------------------------------------------
(* The Rust emitter: emit.rs.  The text written is a sequence of tokens, one
   per format-string fragment and one per interpolated value *)

MaxItems == 1
MaxFields == 2

NL == "\n"

\* unimplemented!(..): the call panics, and nothing after it is written.
PANIC == "unimplemented!(unexpected host type)"

RECURSIVE Concat(_)
Concat(seqs) == IF seqs = <<>> THEN <<>> ELSE Head(seqs) \o Concat(Tail(seqs))

\* rust::Type: Var, the host primitives, Rt and If.
TypeVar(name) == [tag |-> "Var", name |-> name]

HostType(tag) == [tag |-> tag]

TypeRt(rt) == [tag |-> "Rt", rt |-> rt]

TypeIf(cond, lhs, rhs) == [tag |-> "If", cond |-> cond, lhs |-> lhs, rhs |-> rhs]

\* Lines 176-186: the Rust name of a host primitive.
host_type_name ==
    [U8 |-> "u8", U16 |-> "u16", U32 |-> "u32", U64 |-> "u64",
     I8 |-> "i8", I16 |-> "i16", I32 |-> "i32", I64 |-> "i64",
     F32 |-> "f32", F64 |-> "f64", Bool |-> "bool"]

\* Lines 253-262: the suffix of a numeric literal.
literal_suffix ==
    [U8 |-> "u8", U16 |-> "u16", U32 |-> "u32", U64 |-> "u64",
     I8 |-> "i8", I16 |-> "i16", I32 |-> "i32", I64 |-> "i64",
     F32 |-> "f32", F64 |-> "f64"]

\* emit_rt_ty writes the name of the RtType variant; a variant is kept here
\* as that name.
emit_rt_ty(rt) == <<rt>>

RECURSIVE emit_term(_)
emit_term(t) ==
    CASE t.tag = "Var" -> <<t.name>>
      [] t.tag = "Bool" -> <<IF t.value THEN "true" ELSE "false">>
      [] t.tag \in DOMAIN literal_suffix -> <<t.value, literal_suffix[t.tag]>>
      [] t.tag = "Call" -> emit_term(t.term) \o <<"()">>
      [] t.tag = "If" ->
            <<"if ">> \o emit_term(t.term0) \o <<" { ">> \o emit_term(t.term1)
            \o <<" } else { ">> \o emit_term(t.term2) \o <<" }">>

RECURSIVE emit_ty(_)
emit_ty(ty) ==
    CASE ty.tag = "Var" -> <<ty.name>>
      [] ty.tag \in DOMAIN host_type_name -> <<host_type_name[ty.tag]>>
      [] ty.tag = "Rt" -> <<"ddl_rt::">> \o emit_rt_ty(ty.rt)
      [] ty.tag = "If" ->
            <<"ddl_rt::If<">> \o emit_ty(ty.lhs) \o <<", ">> \o emit_ty(ty.rhs)
            \o <<">">>

\* The read written without the `?` that propagates its failure.
read_call_unchecked(path, name) == <<path>> \o name \o <<">().unwrap_or_default()">>

\* Lines 205 and 208-210: "ctxt.read::<{}>()?".
read_call(path, name) == <<path>> \o name \o <<">()?">>

\* A read written for every type, host types included.
RECURSIVE emit_ty_read_total(_)
emit_ty_read_total(ty) ==
    CASE ty.tag = "Var" -> read_call("ctxt.read::<", <<ty.name>>)
      [] ty.tag = "Rt" -> read_call("ctxt.read::<ddl_rt::", emit_rt_ty(ty.rt))
      [] ty.tag = "If" ->
            <<"if ">> \o emit_term(ty.cond) \o <<" {">>
            \o emit_ty_read_total(ty.lhs)
            \o <<"} else {">> \o emit_ty_read_total(ty.rhs) \o <<"}">>
      [] OTHER -> read_call("ctxt.read::<", emit_ty(ty))

\* The conditional read with its two branches exchanged.
RECURSIVE emit_ty_read_swapped(_)
emit_ty_read_swapped(ty) ==
    CASE ty.tag = "Var" -> read_call("ctxt.read::<", <<ty.name>>)
      [] ty.tag = "Rt" -> read_call("ctxt.read::<ddl_rt::", emit_rt_ty(ty.rt))
      [] ty.tag = "If" ->
            <<"if ">> \o emit_term(ty.cond) \o <<" {">>
            \o emit_ty_read_swapped(ty.rhs)
            \o <<"} else {">> \o emit_ty_read_swapped(ty.lhs) \o <<"}">>
      [] OTHER -> <<PANIC>>

RECURSIVE emit_ty_read(_)
emit_ty_read(ty) ==
    CASE ty.tag = "Var" -> read_call("ctxt.read::<", <<ty.name>>)
      [] ty.tag = "Rt" -> read_call("ctxt.read::<ddl_rt::", emit_rt_ty(ty.rt))
      [] ty.tag = "If" ->
            <<"if ">> \o emit_term(ty.cond) \o <<" {">> \o emit_ty_read(ty.lhs)
            \o <<"} else {">> \o emit_ty_read(ty.rhs) \o <<"}">>
      [] OTHER -> <<PANIC>>

\* for doc_line in doc.iter() { writeln!(writer, "{prefix}{}", doc_line) }.
emit_doc_lines(prefix, doc) ==
    Concat([i \in 1..Len(doc) |-> <<prefix, doc[i], NL>>])

\* Lines 40-54.
emit_const(const) ==
    <<NL>> \o emit_doc_lines("///", const.doc)
    \o <<"pub const ", const.name, ": ">> \o emit_ty(const.ty)
    \o <<" = ">> \o emit_term(const.term) \o <<";", NL>>

\* Lines 56-76.
emit_function(function) ==
    <<NL>> \o emit_doc_lines("///", function.doc)
    \o <<"pub ">> \o (IF function.is_const THEN <<"const ">> ELSE <<>>)
    \o <<"fn ", function.name, "() -> ">> \o emit_ty(function.ty) \o <<" {", NL>>
    \o <<"    ">> \o emit_term(function.term) \o <<NL>>
    \o <<"}", NL>>

\* Lines 78-90.
emit_alias(ty_alias) ==
    <<NL>> \o emit_doc_lines("///", ty_alias.doc)
    \o <<"pub type ", ty_alias.name, " = ">> \o emit_ty(ty_alias.ty) \o <<";", NL>>

\* struct_ty.derives.iter().format(", ").
format_derives(derives) ==
    Concat([i \in 1..Len(derives) |->
              IF i = 1 THEN <<derives[i]>> ELSE <<", ", derives[i]>>])

\* The declaration with the multi-line form for every struct, the empty one
\* included.
emit_struct_decl_multiline(struct_ty) ==
    <<NL>> \o emit_doc_lines("///", struct_ty.doc)
    \o (IF struct_ty.derives /= <<>>
        THEN <<"#[derive(">> \o format_derives(struct_ty.derives) \o <<")]", NL>>
        ELSE <<>>)
    \o <<"pub struct ", struct_ty.name, " {", NL>>
    \o Concat([i \in 1..Len(struct_ty.fields) |->
           LET field == struct_ty.fields[i] IN
           emit_doc_lines("    ///", field.doc)
           \o <<"    pub ", field.name, ": ">> \o emit_ty(field.host_ty)
           \o <<",", NL>>])
    \o <<"}", NL>>
    \o <<NL>>

\* Lines 95-124: the docs, the derives and the data declaration.
emit_struct_decl(struct_ty) ==
    <<NL>> \o emit_doc_lines("///", struct_ty.doc)
    \o (IF struct_ty.derives /= <<>>
        THEN <<"#[derive(">> \o format_derives(struct_ty.derives) \o <<")]", NL>>
        ELSE <<>>)
    \o (IF struct_ty.fields = <<>>
        THEN <<"pub struct ", struct_ty.name, " {}", NL>>
        ELSE <<"pub struct ", struct_ty.name, " {", NL>>
             \o Concat([i \in 1..Len(struct_ty.fields) |->
                    LET field == struct_ty.fields[i] IN
                    emit_doc_lines("    ///", field.doc)
                    \o <<"    pub ", field.name, ": ">> \o emit_ty(field.host_ty)
                    \o <<",", NL>>])
             \o <<"}", NL>>)
    \o <<NL>>

\* Lines 128-131: the Binary impl.
emit_binary_impl(struct_ty) ==
    <<"impl ddl_rt::Binary for ", struct_ty.name, " {", NL,
      "    type Host = ", struct_ty.name, ";", NL,
      "}", NL>>
    \o <<NL>>

\* Lines 135-168: the ReadBinary impl.
emit_read_binary_impl(struct_ty) ==
    <<"impl<'data> ddl_rt::ReadBinary<'data> for ", struct_ty.name, " {", NL>>
    \o (IF struct_ty.fields = <<>>
        THEN <<"    fn read(_: &mut ddl_rt::ReadCtxt<'data>) -> Result<",
               struct_ty.name, ", ddl_rt::ReadError> {", NL,
               "        Ok(", struct_ty.name, " {})", NL,
               "    }", NL>>
        ELSE <<"    fn read(ctxt: &mut ddl_rt::ReadCtxt<'data>) -> Result<",
               struct_ty.name, ", ddl_rt::ReadError> {", NL>>
             \o Concat([i \in 1..Len(struct_ty.fields) |->
                    LET field == struct_ty.fields[i] IN
                    <<"        let ", field.name, " = ">>
                    \o emit_ty_read(field.format_ty) \o <<";", NL>>])
             \o <<NL>>
             \o <<"        Ok(", struct_ty.name, " {", NL>>
             \o Concat([i \in 1..Len(struct_ty.fields) |->
                    <<"            ", struct_ty.fields[i].name, ",", NL>>])
             \o <<"        })", NL,
                  "    }", NL>>)
    \o <<"}", NL>>

\* The reader written before the format marker.
emit_struct_ty_reader_first(struct_ty) ==
    emit_struct_decl(struct_ty) \o emit_read_binary_impl(struct_ty) \o <<NL>>
    \o emit_binary_impl(struct_ty)

\* Lines 92-171.
emit_struct_ty(struct_ty) ==
    emit_struct_decl(struct_ty) \o emit_binary_impl(struct_ty)
    \o emit_read_binary_impl(struct_ty)

\* Lines 31-38.
emit_item(item) ==
    CASE item.tag = "Const" -> emit_const(item)
      [] item.tag = "Function" -> emit_function(item)
      [] item.tag = "Alias" -> emit_alias(item)
      [] item.tag = "Struct" -> emit_struct_ty(item)

\* The header with a stamp taken from the state of the run instead of the
\* fixed version.
emit_header_stamped ==
    <<"// This file is automatically @generated by ", "CARGO_PKG_NAME", " ",
      IF emitted_count = 0 THEN "CARGO_PKG_VERSION" ELSE "RUN_STAMP", NL,
      "// It is not intended for manual editing.", NL>>

\* Lines 7-15: the two header lines; the package name and version are fixed
\* when the emitter is built.
emit_header ==
    <<"// This file is automatically @generated by ", "CARGO_PKG_NAME", " ",
      "CARGO_PKG_VERSION", NL,
      "// It is not intended for manual editing.", NL>>

\* Lines 17-22.
emit_module_doc(doc) ==
    IF doc /= <<>> THEN <<NL>> \o emit_doc_lines("//!", doc) ELSE <<>>

\* The loop going through the items from the last to the first.
next_item_reversed(its, count) == its[Len(its) - count]

\* Line 24: `for item in &module.items`, after `count` rounds.
next_item(its, count) == its[count + 1]

----------------------------------------------------------------------------
(* emit_module run on a module, then a generated reader run on a context *)

Panics(text) == \E i \in 1..Len(text) : text[i] = PANIC

\* The text up to the first panic.
Written(text) ==
    IF Panics(text)
    THEN SubSeq(text, 1, (CHOOSE i \in 1..Len(text) :
                            text[i] = PANIC /\ \A j \in 1..(i - 1) : text[j] /= PANIC) - 1)
    ELSE text

Field(name, host_ty, format_ty) ==
    [doc |-> <<>>, name |-> name, host_ty |-> host_ty, format_ty |-> format_ty]

\* The fields a struct is made of: a primitive format, a named format, a
\* conditional format, and a host type in format position (which the
\* lowering never produces).
FieldSet ==
    { Field("inner", HostType("U8"), TypeRt("U8")),
      Field("next", TypeVar("Byte"), TypeVar("Byte")),
      Field("match",
            TypeIf([tag |-> "Var", name |-> "flag"], HostType("U32"),
                   TypeIf([tag |-> "Bool", value |-> TRUE],
                          HostType("U16"), HostType("U16"))),
            TypeIf([tag |-> "Var", name |-> "flag"], TypeRt("U32Le"),
                   TypeIf([tag |-> "Bool", value |-> TRUE],
                          TypeRt("U16Le"), TypeRt("U16Be")))),
      Field("raw", HostType("U8"), HostType("U8")),
      Field("tail",
            TypeIf([tag |-> "Var", name |-> "flag"], HostType("U8"), HostType("U8")),
            TypeIf([tag |-> "Var", name |-> "flag"], TypeRt("U8"), HostType("U8"))) }

\* Sequences of at most n different fields.
RECURSIVE FieldSeqs(_)
FieldSeqs(n) ==
    IF n = 0 THEN {<<>>}
    ELSE FieldSeqs(n - 1)
         \cup { Append(fs, f) : fs \in { g \in FieldSeqs(n - 1) : Len(g) = n - 1 },
                                f \in FieldSet }

StructType(derives, fields) ==
    [tag |-> "Struct", doc |-> <<" A struct.">>, derives |-> derives,
     name |-> "S", fields |-> fields]

StructSet ==
    { StructType(d, fs) :
        d \in {<<>>, <<"Copy", "Clone">>},
        fs \in { g \in FieldSeqs(MaxFields) :
                   \A i, j \in 1..Len(g) : g[i].name = g[j].name => i = j } }

\* A constant, a function and an alias.
SimpleItems ==
    { [tag |-> "Const", doc |-> <<>>, name |-> "K", ty |-> HostType("U8"),
       term |-> [tag |-> "U8", value |-> "1"]],
      [tag |-> "Function", doc |-> <<" A function.">>, is_const |-> TRUE, name |-> "f",
       ty |-> HostType("Bool"), term |-> [tag |-> "Bool", value |-> TRUE]],
      [tag |-> "Alias", doc |-> <<>>, name |-> "A", ty |-> TypeRt("U8")] }

SimpleSeqs == UNION { [1..n -> SimpleItems] : n \in 0..MaxItems }

\* Modules with at most one struct, among at most MaxItems other items.
ModuleInputs ==
    { [doc |-> d, items |-> around[1] \o mid \o around[2]] :
        d \in {<<>>, <<" Module doc.">>},
        mid \in {<<>>} \cup { <<st>> : st \in StructSet },
        around \in { pq \in SimpleSeqs \X SimpleSeqs :
                       Len(pq[1]) + Len(pq[2]) <= MaxItems } }

InitEmit ==
    /\ IdleEval
    /\ IdleEqual
    /\ IdleCli
    /\ IdleFront
    /\ module \in ModuleInputs
    /\ output = <<>>
    /\ emitted_count = 0
    /\ emit_result = "none"
    /\ emit_pc = "header"
    /\ ctxt = [fail_at |-> 0, flag |-> FALSE]
    /\ reader = IdleReader

\* What emit_module is about to write.
Pending ==
    CASE emit_pc = "header" -> emit_header
      [] emit_pc = "doc" -> emit_module_doc(module.doc)
      [] emit_pc = "items" /\ emitted_count < Len(module.items) ->
            emit_item(next_item(module.items, emitted_count))
      [] OTHER -> <<>>

\* The writer has taken the pending text: emit_module moves on, unless a
\* panic cut the text short.
Wrote ==
    /\ output' = output \o Written(Pending)
    /\ IF Panics(Pending)
       THEN /\ emit_result' = "Panic"
            /\ emit_pc' = "done"
            /\ UNCHANGED emitted_count
       ELSE /\ emit_result' = emit_result
            /\ emit_pc' = IF emit_pc = "header" THEN "doc" ELSE "items"
            /\ emitted_count' = IF emit_pc = "items" THEN emitted_count + 1
                                ELSE emitted_count

\* Lines 10-15.
EmitHeader ==
    /\ emit_pc = "header"
    /\ Wrote
    /\ UNCHANGED <<module, ctxt, reader>>
    /\ UNCHANGED <<evalVars, equalVars, cliVars, frontVars>>

\* Lines 17-22.
EmitModuleDoc ==
    /\ emit_pc = "doc"
    /\ Wrote
    /\ UNCHANGED <<module, ctxt, reader>>
    /\ UNCHANGED <<evalVars, equalVars, cliVars, frontVars>>

\* Lines 24-26: one round of the loop over the items.
EmitItem ==
    /\ emit_pc = "items"
    /\ emitted_count < Len(module.items)
    /\ Wrote
    /\ UNCHANGED <<module, ctxt, reader>>
    /\ UNCHANGED <<evalVars, equalVars, cliVars, frontVars>>

\* Line 28: Ok(()).
EmitReturn ==
    /\ emit_pc = "items"
    /\ emitted_count = Len(module.items)
    /\ emit_result' = "Ok"
    /\ emit_pc' = "done"
    /\ UNCHANGED <<module, output, emitted_count, ctxt, reader>>
    /\ UNCHANGED <<evalVars, equalVars, cliVars, frontVars>>

\* A write fails: the `?` after it returns the io error, and the writer
\* holds what the writes before it wrote.
WriterFails ==
    /\ emit_pc \in {"header", "doc", "items"}
    /\ \E k \in 0..(Len(Written(Pending)) - 1) :
          output' = output \o SubSeq(Written(Pending), 1, k)
    /\ emit_result' = "Err"
    /\ emit_pc' = "done"
    /\ UNCHANGED <<module, emitted_count, ctxt, reader>>
    /\ UNCHANGED <<evalVars, equalVars, cliVars, frontVars>>

----------------------------------------------------------------------------
(* The generated reader of a struct, run statement by statement on the text
   emit_module wrote.  `ctxt.read::<T>()` returns a Result, `?` returns its
   error from the reader at once, and the read numbered ctxt.fail_at is the
   one that fails *)

\* The positions of the tokens of `markers`, in order.
Positions(text, markers) ==
    SelectSeq([i \in 1..Len(text) |-> i], LAMBDA i : text[i] \in markers)

\* The tokens that follow the tokens of `markers`, in order.
After(text, markers) ==
    LET at == Positions(text, markers)
    IN [k \in 1..Len(at) |-> text[at[k] + 1]]

\* The first position of `token`, and 0 when there is none.
IndexOf(text, token) ==
    IF \E i \in 1..Len(text) : text[i] = token
    THEN CHOOSE i \in 1..Len(text) :
            text[i] = token /\ \A j \in 1..(i - 1) : text[j] /= token
    ELSE 0

\* The first statement of `fn read` in the ReadBinary impl of `name`: the
\* impl line and the fn line are four tokens each.
ReaderBody(text, name) ==
    LET i == CHOOSE i \in 1..Len(text) :
                /\ text[i] = "impl<'data> ddl_rt::ReadBinary<'data> for "
                /\ text[i + 1] = name
    IN i + 8

\* The read expression at position p, run after n reads: where it ends,
\* how many reads it performs, and whether it returns an error from the
\* reader.  A conditional runs one of its two branches.
RECURSIVE ExecRead(_, _, _, _)
ExecRead(text, p, c, n) ==
    IF text[p] = "if " THEN
        LET q == CHOOSE j \in (p + 1)..Len(text) :
                    text[j] = " {" /\ \A k \in (p + 1)..(j - 1) : text[k] /= " {"
            cond == IF text[p + 1] = "true" THEN TRUE
                    ELSE IF text[p + 1] = "false" THEN FALSE
                    ELSE c.flag
            lhs == ExecRead(text, q + 1, c, n)
            rhs == ExecRead(text, lhs.next + 1, c, n)
        IN [next |-> rhs.next + 1,
            reads |-> IF cond THEN lhs.reads ELSE rhs.reads,
            types |-> IF cond THEN lhs.types ELSE rhs.types,
            err |-> IF cond THEN lhs.err ELSE rhs.err]
    ELSE
        [next |-> p + 3,
         reads |-> 1,
         types |-> <<text[p + 1]>>,
         err |-> n + 1 = c.fail_at /\ text[p + 2] = ">()?"]

\* The struct item of the module, if it has one.
StructItems == { i \in 1..Len(module.items) : module.items[i].tag = "Struct" }

\* A generated reader is called on a context.
CallReader ==
    /\ emit_pc = "done"
    /\ emit_result = "Ok"
    /\ reader.pc = "idle"
    /\ \E i \in StructItems, fail_at \in 0..MaxFields, flag \in BOOLEAN :
          /\ ctxt' = [fail_at |-> fail_at, flag |-> flag]
          /\ reader' = [pc |-> "running",
                        pos |-> ReaderBody(output, module.items[i].name),
                        reads |-> <<>>, types |-> <<>>,
                        result |-> "none", value |-> <<>>]
    /\ UNCHANGED <<module, output, emitted_count, emit_result, emit_pc>>
    /\ UNCHANGED <<evalVars, equalVars, cliVars, frontVars>>

\* `let name = <read>;`: the read runs, and its error, if propagated, ends
\* the reader.  The blank line after the last let is skipped.
RunLet ==
    /\ reader.pc = "running"
    /\ output[reader.pos] = "        let "
    /\ LET name == output[reader.pos + 1]
           run == ExecRead(output, reader.pos + 3, ctxt, Len(reader.reads))
           next == run.next + 2
       IN reader' =
            IF run.err
            THEN [reader EXCEPT !.pc = "done", !.result = "Err",
                                !.reads = Append(reader.reads, name),
                                !.types = reader.types \o run.types]
            ELSE [reader EXCEPT !.pos = IF output[next] = NL THEN next + 1 ELSE next,
                                !.reads = Append(reader.reads, name),
                                !.types = reader.types \o run.types]
    /\ UNCHANGED <<module, output, emitted_count, emit_result, emit_pc, ctxt>>
    /\ UNCHANGED <<evalVars, equalVars, cliVars, frontVars>>

\* `Ok(Name { f1, .., fn })` and `Ok(Name {})`: the struct is constructed
\* from the names listed.
RunOk ==
    /\ reader.pc = "running"
    /\ output[reader.pos] = "        Ok("
    /\ LET rest == SubSeq(output, reader.pos, Len(output))
           body == SubSeq(rest, 1, IndexOf(rest, "    }"))
       IN reader' = [reader EXCEPT !.pc = "done", !.result = "Ok",
                                   !.value = After(body, {"            "})]
    /\ UNCHANGED <<module, output, emitted_count, emit_result, emit_pc, ctxt>>
    /\ UNCHANGED <<evalVars, equalVars, cliVars, frontVars>>

NextEmit ==
    \/ EmitHeader
    \/ EmitModuleDoc
    \/ EmitItem
    \/ EmitReturn
    \/ WriterFails
    \/ CallReader
    \/ RunLet
    \/ RunOk

SpecEmit == InitEmit /\ [][NextEmit]_vars

\* The struct item of the module.
TheStruct == module.items[CHOOSE i \in StructItems : TRUE]

FieldNames(struct_ty) ==
    [i \in 1..Len(struct_ty.fields) |-> struct_ty.fields[i].name]

IsPrefix(a, b) == Len(a) <= Len(b) /\ SubSeq(b, 1, Len(a)) = a

\* The whole text of the module: the header, the doc, each item once in
\* sequence order.
FullText ==
    emit_header \o emit_module_doc(module.doc)
    \o Concat([i \in 1..Len(module.items) |-> emit_item(module.items[i])])

\* The tokens that open the declaration of an item's name.
ItemNameMarkers == {"pub const ", "fn ", "pub type ", "pub struct "}

----------------------------------------------------------------------------
(* C18 *)

\* C18: emit_module writes the two generator header lines first, then the
\* module's doc lines (only when there are any), then every item of
\* module.items exactly once in sequence order; no item's text is
\* interleaved with another's.  At every point of a run the text written is
\* a prefix of that text, and it is all of it when emit_module returns Ok.
C18_EmissionOrder ==
    /\ IsPrefix(output, Written(FullText))
    /\ emit_result = "Ok" =>
          /\ output = FullText
          /\ SubSeq(output, 1, Len(emit_header)) = emit_header
          /\ After(output, {"//!"}) = module.doc
          /\ module.doc = <<>> =>
                SubSeq(output, Len(emit_header) + 1, Len(output))
                    = Concat([i \in 1..Len(module.items) |-> emit_item(module.items[i])])
          /\ After(output, ItemNameMarkers)
                = [i \in 1..Len(module.items) |-> module.items[i].name]

\* emit_module has returned Ok for a module with doc lines whose items are a
\* struct and then a constant.
C18_Witness ==
    /\ emit_result = "Ok"
    /\ module.doc /= <<>>
    /\ Len(module.items) = 2
    /\ module.items[1].tag = "Struct"
    /\ module.items[2].tag = "Const"
    /\ Len(output) > Len(emit_header)

----------------------------------------------------------------------------
(* C19 *)

----------------------------------------------------------------------------
(* C20 *)

\* C20: in the emitted reader for a struct with fields f1..fn, the reads run
\* in declaration order; if the read of fi fails the reader returns that
\* error immediately, performs no later read and does not construct the
\* struct; the struct is constructed only after all n reads have succeeded.
C20_ReaderShortCircuit ==
    reader.pc /= "idle" =>
        LET names == FieldNames(TheStruct)
            fails == ctxt.fail_at \in 1..Len(names)
        IN
        /\ IsPrefix(reader.reads, names)
        /\ fails => Len(reader.reads) <= ctxt.fail_at
        /\ (fails /\ reader.pc = "running") => Len(reader.reads) < ctxt.fail_at
        /\ reader.result = "Err" =>
              /\ fails
              /\ Len(reader.reads) = ctxt.fail_at
              /\ reader.value = <<>>
        /\ reader.result = "Ok" =>
              /\ ~fails
              /\ reader.reads = names
              /\ reader.value = names
        /\ reader.pc = "done" => reader.result \in {"Ok", "Err"}

\* The reader of a struct with two fields has returned the error of its
\* first read, with the second read not performed.
C20_Witness ==
    /\ reader.pc = "done"
    /\ reader.result = "Err"
    /\ ctxt.fail_at = 1
    /\ Len(TheStruct.fields) = 2
    /\ reader.reads = <<TheStruct.fields[1].name>>
    /\ reader.value = <<>>

\* C21: a struct with no fields is declared on one line, `pub struct Name {}`,
\* while a struct with fields opens a brace, has one line per field and
\* closes the brace on a line of its own; the reader of the empty struct
\* ignores its context, contains no read, and every call of it returns Ok
\* with the empty struct value without reading anything, whatever the
\* context would have answered.
C21_EmptyStruct ==
    (emit_result = "Ok" /\ StructItems /= {}) =>
        LET struct_ty == TheStruct
            decl == IndexOf(output, "pub struct ")
            read == IndexOf(output, "impl<'data> ddl_rt::ReadBinary<'data> for ")
        IN
        IF struct_ty.fields = <<>>
        THEN /\ SubSeq(output, decl, decl + 5)
                  = <<"pub struct ", struct_ty.name, " {}", NL, NL,
                      "impl ddl_rt::Binary for ">>
             /\ SubSeq(output, read + 4, read + 14)
                  = <<"    fn read(_: &mut ddl_rt::ReadCtxt<'data>) -> Result<",
                      struct_ty.name, ", ddl_rt::ReadError> {", NL,
                      "        Ok(", struct_ty.name, " {})", NL,
                      "    }", NL,
                      "}">>
             /\ \A i \in 1..Len(output) :
                    output[i] \notin {"ctxt.read::<", "ctxt.read::<ddl_rt::",
                                      "        let ", "    pub "}
             /\ reader.reads = <<>> /\ reader.types = <<>>
             /\ reader.pc = "done" => reader.result = "Ok" /\ reader.value = <<>>
        ELSE /\ SubSeq(output, decl, decl + 4)
                  = <<"pub struct ", struct_ty.name, " {", NL, "    pub ">>
             /\ output[read + 4]
                  = "    fn read(ctxt: &mut ddl_rt::ReadCtxt<'data>) -> Result<"

\* The reader of an empty struct has returned Ok on a context whose first
\* read would have failed.
C21_Witness ==
    /\ emit_result = "Ok" /\ StructItems /= {}
    /\ TheStruct.fields = <<>>
    /\ reader.pc = "done" /\ reader.result = "Ok"
    /\ ctxt.fail_at = 1

\* Reserved words of the target language, and the prefix that turns one into
\* an identifier (`r#match`); the quoted name is the prefix token followed by
\* the word.
ReservedWords == {"as", "fn", "if", "impl", "let", "loop", "match", "type"}

QuotePrefix == "r#"

\* The tokens after which a name of the module is written: the name of a
\* const, a function, an alias or a struct, a field in the declaration, a
\* field binding in the reader, a field in the struct construction.
NameMarkers == ItemNameMarkers \cup {"    pub ", "        let ", "            "}

\* C22: in the text emit_module has written, no name of an item or of a
\* struct field that is a reserved word stands bare: at its declaration, at
\* its binding in the reader and in the struct construction, a reserved name
\* is written as the quoting prefix followed by the name.
C22_ReservedWordsQuoted ==
    (emit_result = "Ok" /\ StructItems /= {}) =>
        LET names == FieldNames(TheStruct)
            pubs == Positions(output, {"    pub "})
            lets == Positions(output, {"        let "})
            inits == Positions(output, {"            "})
        IN
        /\ \A p \in 1..(Len(output) - 1) :
              output[p] \in NameMarkers => output[p + 1] \notin ReservedWords
        /\ \A k \in 1..Len(names) :
              names[k] \in ReservedWords =>
                 \A p \in {pubs[k], lets[k], inits[k]} :
                    SubSeq(output, p + 1, p + 2) = <<QuotePrefix, names[k]>>

\* The host type a runtime format is read into (U32Le and U32Be are both
\* read into a u32).
RtHost ==
    [U8 |-> "u8", U16Le |-> "u16", U16Be |-> "u16", U32Le |-> "u32", U32Be |-> "u32"]

\* The host type text of a format type: the tagged type If<L, R> of both
\* branches for a conditional, recursively.
RECURSIVE IfHostText(_)
IfHostText(ty) ==
    CASE ty.tag = "If" ->
            <<"ddl_rt::If<">> \o IfHostText(ty.lhs) \o <<", ">>
            \o IfHostText(ty.rhs) \o <<">">>
      [] ty.tag = "Rt" -> <<RtHost[ty.rt]>>
      [] ty.tag = "Var" -> <<ty.name>>

\* Whether the condition of a conditional format holds in a context.
CondHolds(cond, c) == IF cond.tag = "Bool" THEN cond.value ELSE c.flag

\* The one format that a read of the format type reads in a context: that
\* of the left branch of a conditional when its condition holds, that of the
\* right branch otherwise, recursively.
RECURSIVE ReadOf(_, _)
ReadOf(ty, c) ==
    CASE ty.tag = "If" ->
            IF CondHolds(ty.cond, c) THEN ReadOf(ty.lhs, c) ELSE ReadOf(ty.rhs, c)
      [] ty.tag = "Rt" -> ty.rt
      [] ty.tag = "Var" -> ty.name

\* C23: a struct field whose format type is If(cond, L, R) is declared with
\* the host type If<L, R> naming the host types of both branches, nested
\* conditionals included, and its read is written as `if cond {..} else
\* {..}`; when the reader runs, the let of every field performs exactly one
\* read, and for a conditional it is the read of L when cond holds and the
\* read of R otherwise, decided recursively in nested conditionals.
C23_ConditionalFormat ==
    (emit_result = "Ok" /\ StructItems /= {}) =>
        LET struct_ty == TheStruct
            pubs == Positions(output, {"    pub "})
            lets == Positions(output, {"        let "})
        IN
        /\ \A k \in 1..Len(struct_ty.fields) :
              LET ty == struct_ty.fields[k].format_ty
                  host == IfHostText(ty)
              IN
              ty.tag = "If" =>
                 /\ SubSeq(output, pubs[k] + 3, pubs[k] + 3 + Len(host))
                       = host \o <<",">>
                 /\ SubSeq(output, lets[k] + 3, lets[k] + 3 + Len(emit_term(ty.cond)) + 1)
                       = <<"if ">> \o emit_term(ty.cond) \o <<" {">>
        /\ Len(reader.types) = Len(reader.reads)
        /\ \A j \in 1..Len(reader.types) :
              reader.types[j] = ReadOf(struct_ty.fields[j].format_ty, ctxt)

\* The reader of a struct whose one field has the format
\* If(flag, U32Le, If(true, U16Le, U16Be)) has returned Ok on a context where
\* flag is false: the one read performed was that of U16Le.
C23_Witness ==
    /\ emit_result = "Ok" /\ StructItems /= {}
    /\ FieldNames(TheStruct) = <<"match">>
    /\ reader.pc = "done" /\ reader.result = "Ok"
    /\ ~ctxt.flag
    /\ reader.types = <<"U16Le">>

\* What a run has written once it wrote the header, the doc and the first n
\* items: a text fixed by the module.
TextAfter(n) ==
    emit_header \o emit_module_doc(module.doc)
    \o Concat([i \in 1..n |-> emit_item(module.items[i])])

ElimOnNeutral ==
    /\ term.tag \in {"FunctionElim", "BoolElim", "IntElim"}
    /\ eval(globals, items, term.head).tag = "VNeutral"

\* The bool elimination of the global `true` or `false` with an empty spine:
\* eval goes on with a branch instead of growing the spine.
BoolElimReduces ==
    /\ term.tag = "BoolElim"
    /\ LET head == eval(globals, items, term.head) IN
       /\ head.tag = "VNeutral"
       /\ head.head.tag = "HGlobal" /\ head.head.name \in {"true", "false"}
       /\ head.elims = <<>>

\* v is the neutral value old with exactly one eliminator more at the end of
\* its spine.
ExtendsSpine(old, v) ==
    /\ v.tag = "VNeutral"
    /\ v.head = old.head
    /\ Len(v.elims) = Len(old.elims) + 1
    /\ SubSeq(v.elims, 1, Len(old.elims)) = old.elims

\* C25 as stated: every call of eval that returns leaves globals and items
\* as they were, and whenever the term applies an eliminator to a head whose
\* value is neutral, the result has the head of that value and its spine
\* with one eliminator more at the end, the value of the head being
\* afterwards what it was.
C25_EvalPureAnyElim ==
    [][(pc = "input" /\ pc' = "evaluated") =>
          /\ globals' = globals /\ items' = items
          /\ ElimOnNeutral =>
                LET old == eval(globals, items, term.head) IN
                /\ ExtendsSpine(old, value')
                /\ eval(globals', items', term'.head) = old]_vars

\* C25, amended: the same, for every eliminator that eval does not reduce:
\* the bool elimination of the global `true` or `false` with an empty spine
\* is the value of a branch, not a longer spine.  In both cases globals,
\* items and the value of the head are afterwards what they were.
C25_EvalPure ==
    [][(pc = "input" /\ pc' = "evaluated") =>
          /\ globals' = globals /\ items' = items
          /\ ElimOnNeutral =>
                LET old == eval(globals, items, term.head) IN
                /\ ~BoolElimReduces => ExtendsSpine(old, value')
                /\ BoolElimReduces =>
                      value' = eval(globals, items,
                                    IF old.head.name = "true"
                                    THEN term.if_true ELSE term.if_false)
                /\ eval(globals', items', term'.head) = old]_vars

\* eval has returned for an application whose head is itself an
\* application of the neutral x: the spine of the head, one eliminator, is a
\* prefix of the result's spine of two.
C25_Witness ==
    /\ pc = "evaluated"
    /\ term.tag = "FunctionElim" /\ term.head.tag = "FunctionElim"
    /\ LET old == eval(globals, items, term.head) IN
       /\ old.tag = "VNeutral" /\ Len(old.elims) = 1
       /\ ExtendsSpine(old, value)

----------------------------------------------------------------------------
(* Part 5: the desugaring of concrete terms into raw terms, as the tests of
   pikelet/src/syntax/translation/desugar/test.rs fix it: each test parses a
   concrete term, desugars it, and compares the raw term up to the names of
   its binders *)

\* The most names the parameter groups of one lambda or pi bind together.
MaxBinders == 3

\* Concrete terms: a name, `Type`, `\params => body`, `params -> body` and
\* `ann -> body`.  A parameter group is [names, ann]; ann is None for a
\* lambda parameter without annotation.
CVar(name) == [tag |-> "CVar", name |-> name]

CUniverse == [tag |-> "CUniverse"]

CLam(params, body) == [tag |-> "CLam", params |-> params, body |-> body]

CPi(params, body) == [tag |-> "CPi", params |-> params, body |-> body]

CArrow(ann, body) == [tag |-> "CArrow", ann |-> ann, body |-> body]

Group(names, ann) == [names |-> names, ann |-> ann]

\* Raw terms: RawTerm::Var, Universe, Hole, Lam and Pi.
RVar(name) == [tag |-> "Var", name |-> name]

RUniverse(level) == [tag |-> "Universe", level |-> level]

RHole == [tag |-> "Hole"]

RLam(name, ann, body) == [tag |-> "Lam", name |-> name, ann |-> ann, body |-> body]

RPi(name, ann, body) == [tag |-> "Pi", name |-> name, ann |-> ann, body |-> body]

\* One binder per name of a group, the first name outermost, each with the
\* group's annotation.
RECURSIVE bind_names(_, _, _, _)
bind_names(tag, names, ann, body) ==
    IF names = <<>> THEN body
    ELSE [tag |-> tag, name |-> Head(names), ann |-> ann,
          body |-> bind_names(tag, Tail(names), ann, body)]

RECURSIVE desugar(_)

\* The binders of the parameter groups, the first group outermost.
RECURSIVE bind_params(_, _, _)
bind_params(tag, params, body) ==
    IF params = <<>> THEN body
    ELSE LET group == Head(params)
             ann == IF group.ann = None THEN RHole ELSE desugar(group.ann)
         IN bind_names(tag, group.names, ann, bind_params(tag, Tail(params), body))

\* concrete_term.desugar().
desugar(c) ==
    CASE c.tag = "CVar" -> RVar(c.name)
      [] c.tag = "CUniverse" -> RUniverse(0)
      [] c.tag = "CLam" -> bind_params("Lam", c.params, desugar(c.body))
      [] c.tag = "CPi" -> bind_params("Pi", c.params, desugar(c.body))
      [] c.tag = "CArrow" -> RPi("_", desugar(c.ann), desugar(c.body))

\* The term with its bound variables replaced by the distance to their
\* binder and the names of its binders dropped: nameless::bind.
RECURSIVE Nameless(_, _)
Nameless(t, env) ==
    CASE t.tag = "Var" ->
            LET bound == { i \in 1..Len(env) : env[i] = t.name } IN
            IF bound = {} THEN [tag |-> "Free", name |-> t.name]
            ELSE [tag |-> "Bound",
                  index |-> CHOOSE i \in bound : \A j \in bound : i <= j]
      [] t.tag \in {"Lam", "Pi"} ->
            [tag |-> t.tag, ann |-> Nameless(t.ann, env),
             body |-> Nameless(t.body, <<t.name>> \o env)]
      [] OTHER -> t

\* assert_term_eq!: equality up to the names of binders.
assert_term_eq(left, right) == Nameless(left, <<>>) = Nameless(right, <<>>)

\* Test lam_lam_ann with its second binder first.
lam_lam_ann_swapped ==
    [input |-> CLam(<<Group(<<"x", "y">>, CUniverse)>>, CVar("x")),
     expected |-> RLam("y", RUniverse(0), RLam("x", RUniverse(0), RVar("x")))]

\* Lines 199-223: `\(x y : Type) => x`.
lam_lam_ann ==
    [input |-> CLam(<<Group(<<"x", "y">>, CUniverse)>>, CVar("x")),
     expected |-> RLam("x", RUniverse(0), RLam("y", RUniverse(0), RVar("x")))]

\* Lines 268-292: `(x y : Type) -> x`.
pi_pi ==
    [input |-> CPi(<<Group(<<"x", "y">>, CUniverse)>>, CVar("x")),
     expected |-> RPi("x", RUniverse(0), RPi("y", RUniverse(0), RVar("x")))]

\* Lines 225-240: `Type -> Type`.
arrow ==
    [input |-> CArrow(CUniverse, CUniverse),
     expected |-> RPi("_", RUniverse(0), RUniverse(0))]

\* Lines 294-321: `(x : Type) -> x -> x`.
pi_arrow ==
    [input |-> CPi(<<Group(<<"x">>, CUniverse)>>, CArrow(CVar("x"), CVar("x"))),
     expected |-> RPi("x", RUniverse(0), RPi("_", RVar("x"), RVar("x")))]

\* Lines 424-466, the tests of mod sugar: each parses two terms and asserts
\* that they desugar to equal terms.
sugar ==
    { \* lam_args: \x (y : Type) z => x
      [left |-> CLam(<<Group(<<"x">>, None), Group(<<"y">>, CUniverse),
                       Group(<<"z">>, None)>>, CVar("x")),
       right |-> CLam(<<Group(<<"x">>, None)>>,
                   CLam(<<Group(<<"y">>, CUniverse)>>,
                     CLam(<<Group(<<"z">>, None)>>, CVar("x"))))],
      \* lam_args_multi: \(x : Type) (y : Type) z => x
      [left |-> CLam(<<Group(<<"x">>, CUniverse), Group(<<"y">>, CUniverse),
                       Group(<<"z">>, None)>>, CVar("x")),
       right |-> CLam(<<Group(<<"x", "y">>, CUniverse), Group(<<"z">>, None)>>,
                      CVar("x"))],
      \* pi_args: (a : Type) -> (x y z : a) -> x
      [left |-> CPi(<<Group(<<"a">>, CUniverse)>>,
                  CPi(<<Group(<<"x", "y", "z">>, CVar("a"))>>, CVar("x"))),
       right |-> CPi(<<Group(<<"a">>, CUniverse)>>,
                   CPi(<<Group(<<"x">>, CVar("a"))>>,
                     CPi(<<Group(<<"y">>, CVar("a"))>>,
                       CPi(<<Group(<<"z">>, CVar("a"))>>, CVar("x")))))],
      \* pi_args_multi: (a : Type) (x y z : a) (w : I8) -> x
      [left |-> CPi(<<Group(<<"a">>, CUniverse), Group(<<"x", "y", "z">>, CVar("a")),
                      Group(<<"w">>, CVar("I8"))>>, CVar("x")),
       right |-> CPi(<<Group(<<"a">>, CUniverse)>>,
                   CPi(<<Group(<<"x">>, CVar("a"))>>,
                     CPi(<<Group(<<"y">>, CVar("a"))>>,
                       CPi(<<Group(<<"z">>, CVar("a"))>>,
                         CPi(<<Group(<<"w">>, CVar("I8"))>>, CVar("x"))))))],
      \* arrow: (a : Type) -> a -> a
      [left |-> CPi(<<Group(<<"a">>, CUniverse)>>, CArrow(CVar("a"), CVar("a"))),
       right |-> CPi(<<Group(<<"a">>, CUniverse)>>,
                   CPi(<<Group(<<"x">>, CVar("a"))>>, CVar("a")))] }

\* The names bound in the inputs.
BinderNames == {"x", "y"}

\* Sequences of n names.
RECURSIVE NameSeqs(_)
NameSeqs(n) ==
    IF n = 0 THEN {<<>>}
    ELSE { <<name>> \o rest : name \in BinderNames, rest \in NameSeqs(n - 1) }

\* Lists of parameter groups that bind n names together, with annotations
\* from anns.
RECURSIVE ParamLists(_, _)
ParamLists(n, anns) ==
    IF n = 0 THEN {<<>>}
    ELSE UNION { { <<Group(names, ann)>> \o rest :
                      names \in NameSeqs(k), ann \in anns,
                      rest \in ParamLists(n - k, anns) } : k \in 1..n }

LeafInputs == {CVar("x"), CVar("y"), CUniverse}

BodyInputs == LeafInputs \cup { CArrow(a, b) : a \in LeafInputs, b \in LeafInputs }

\* The terms the tests desugar.
TestInputs ==
    {lam_lam_ann.input, pi_pi.input, arrow.input, pi_arrow.input}
    \cup { test.left : test \in sugar } \cup { test.right : test \in sugar }

\* desugar is called on the terms of the tests, and on every lambda and pi
\* that binds up to MaxBinders names in any grouping.
InitDesugar ==
    /\ IdleEval
    /\ IdleEqual
    /\ IdleCli
    /\ IdleEmit
    /\ IdleCorePretty
    /\ IdleSurfacePretty
    /\ \/ concrete_term \in BodyInputs \cup TestInputs
       \/ \E n \in 1..MaxBinders :
             \E params \in ParamLists(n, {None, CUniverse, CVar("x")}),
                body \in BodyInputs :
                concrete_term = CLam(params, body)
       \/ \E n \in 1..MaxBinders :
             \E params \in ParamLists(n, {CUniverse, CVar("x")}),
                body \in BodyInputs :
                concrete_term = CPi(params, body)
    /\ raw_term = None

\* raw_term := concrete_term.desugar()
Desugar ==
    /\ concrete_term /= None
    /\ raw_term = None
    /\ raw_term' = desugar(concrete_term)
    /\ UNCHANGED concrete_term
    /\ UNCHANGED <<evalVars, equalVars, cliVars, emitVars>>
    /\ UNCHANGED <<corePrettyVars, surfacePrettyVars>>

NextDesugar == Desugar

SpecDesugar == InitDesugar /\ [][NextDesugar]_vars

\* The binders of the parameter groups, one per name, in left-to-right
\* order, each with the annotation of its group.
Flatten(params) ==
    Concat([i \in 1..Len(params) |->
              [j \in 1..Len(params[i].names) |->
                  [name |-> params[i].names[j], ann |-> params[i].ann]]])

\* A name that occurs in no input.
Unused == "unused"

\* The right-nested chain of single binders of a concrete term, an arrow
\* being a pi whose binder occurs nowhere.
RECURSIVE Nested(_)
RECURSIVE Chain(_, _, _)
Chain(tag, binders, body) ==
    IF binders = <<>> THEN body
    ELSE [tag |-> tag, name |-> binders[1].name,
          ann |-> IF binders[1].ann = None THEN RHole ELSE Nested(binders[1].ann),
          body |-> Chain(tag, Tail(binders), body)]

Nested(c) ==
    CASE c.tag = "CVar" -> RVar(c.name)
      [] c.tag = "CUniverse" -> RUniverse(0)
      [] c.tag = "CLam" -> Chain("Lam", Flatten(c.params), Nested(c.body))
      [] c.tag = "CPi" -> Chain("Pi", Flatten(c.params), Nested(c.body))
      [] c.tag = "CArrow" -> RPi(Unused, Nested(c.ann), Nested(c.body))

\* C26: a lambda or pi with several parameter groups, or several names in
\* one group, desugars to the right-nested chain of single binders, one per
\* name in left-to-right order with the annotation of the name's group (a
\* hole where a lambda parameter has none), and `A -> B` to a pi whose binder
\* occurs nowhere in B, all up to the names of binders; the raw terms the
\* tests lam_lam_ann, pi_pi, arrow and pi_arrow expect are what desugar
\* gives, and the two terms of each test of mod sugar desugar to equal terms.
C26_BinderSugar ==
    raw_term /= None =>
        /\ assert_term_eq(raw_term, Nested(concrete_term))
        /\ \A test \in {lam_lam_ann, pi_pi, arrow, pi_arrow} :
              concrete_term = test.input => assert_term_eq(raw_term, test.expected)
        /\ \A test \in sugar :
              /\ concrete_term = test.left =>
                    assert_term_eq(raw_term, desugar(test.right))
              /\ concrete_term = test.right =>
                    assert_term_eq(raw_term, desugar(test.left))

\* desugar has returned for `\(x y : x) (y : Type) => y -> x`: three
\* binders x, y, y, the annotation of the second being the first binder.
C26_Witness ==
    /\ concrete_term = CLam(<<Group(<<"x", "y">>, CVar("x")),
                              Group(<<"y">>, CUniverse)>>,
                            CArrow(CVar("y"), CVar("x")))
    /\ raw_term = RLam("x", RVar("x"),
                    RLam("y", RVar("x"),
                      RLam("y", RUniverse(0),
                        RPi("_", RVar("y"), RVar("x")))))

\* The format types emit_ty_read has a read for: a variable, a runtime
\* format, and a conditional whose two branches have one.
RECURSIVE Readable(_)
Readable(ty) ==
    CASE ty.tag \in {"Var", "Rt"} -> TRUE
      [] ty.tag = "If" -> Readable(ty.lhs) /\ Readable(ty.rhs)
      [] OTHER -> FALSE

\* The fields of a struct whose format type has no read.
Unreadable(struct_ty) ==
    { k \in 1..Len(struct_ty.fields) : ~Readable(struct_ty.fields[k].format_ty) }

\* C27: emit_ty_read writes a read exactly for a Var, an Rt and an If whose
\* branches are both readable, and panics on any other type, at top level or
\* inside a branch of an If.  emit_module hence returns Ok only for modules
\* whose fields are all readable; on a struct with an unreadable field it
\* never returns Ok, and unless a write failed before, it ends in the panic
\* (not in an io error) with the text written up to the unreadable type of
\* the first such field: the lets of the fields before it, and the start of
\* its own let.  (The read of each field type of the model is looked at
\* once, before emit_module starts; a run that ended in an io error is
\* compared with the text up to the panic when its last text is one a
\* panic can follow.)
C27_ReadIsPartial ==
    /\ emit_pc = "header" =>
          \A field \in FieldSet :
             Panics(emit_ty_read(field.format_ty)) <=> ~Readable(field.format_ty)
    /\ (emit_result = "Ok" /\ StructItems /= {}) => Unreadable(TheStruct) = {}
    /\ emit_result = "Panic" =>
          /\ StructItems /= {} /\ Unreadable(TheStruct) /= {}
          /\ LET struct_ty == TheStruct
                 k == CHOOSE i \in Unreadable(struct_ty) :
                         \A j \in Unreadable(struct_ty) : i <= j
             IN /\ After(output, {"        let "}) = SubSeq(FieldNames(struct_ty), 1, k)
                /\ output[Len(output)] \in {" = ", " {", "} else {"}
                /\ \A i \in 1..Len(output) : output[i] /= "        Ok("
    /\ (emit_pc = "done" /\ StructItems /= {} /\ Unreadable(TheStruct) /= {}) =>
          /\ emit_result \in {"Panic", "Err"}
          /\ (emit_result = "Err" /\ output /= <<>>
              /\ output[Len(output)] \in {" = ", " {", "} else {"}) =>
                 output /= Written(FullText)

\* emit_module has panicked on a struct whose second field is
\* If(flag, Rt(U8), U8): the read of the left branch and `} else {` were
\* written before the panic.
C27_Witness ==
    /\ emit_result = "Panic"
    /\ StructItems /= {}
    /\ FieldNames(TheStruct) = <<"inner", "tail">>
    /\ output[Len(output)] = "} else {"

\* The calls of main in the order of its text, for a command.
PipelineOrder(cmd) ==
    <<"load_input", "parse_term", "synth">>
    \o (IF cmd = "norm" THEN <<"normalize">> ELSE <<>>)
    \o <<"quote", "check_elaboration", "reset", "distill", "println">>

\* The positions of a step in the calls made so far.
StepsAt(step) == { i \in 1..Len(steps) : steps[i] = step }

\* C28: in elab, norm and type the calls of main are at every point a
\* prefix of: load input, parse, synth, (normalize, in norm), quote, drain
\* the diagnostics, reset the surface arena, distill, print.  The reset and
\* what follows it happen only when the elaboration was ok or
\* --allow-errors is set, and then the process exits 0 after the print; the
\* arena is reset at most once, no call after the reset parses or
\* elaborates (the two calls that hold the parsed surface term), and no
\* call resets anything else.  No diagnostic is drained before quote, so in
\* norm the normalization has run by then, whatever the elaboration
\* reported.
C28_PipelineOrder ==
    /\ IsPrefix(steps, PipelineOrder(command))
    /\ surface_resets = Cardinality(StepsAt("reset"))
    /\ surface_resets <= 1
    /\ StepsAt("reset") /= {} =>
          /\ is_ok \/ allow_errors
          /\ \A i \in StepsAt("reset"), j \in 1..Len(steps) :
                 steps[j] \in {"parse_term", "synth", "normalize", "quote"} => j < i
    /\ Drained /= <<>> => StepsAt("quote") /= {}
    /\ (command = "norm" /\ StepsAt("quote") /= {}) => StepsAt("normalize") /= {}
    /\ command /= "norm" => StepsAt("normalize") = {}
    /\ exit_code = <<0>> =>
          /\ steps = PipelineOrder(command)
          /\ is_ok \/ allow_errors
    /\ exit_code = <<1>> =>
          /\ steps \o <<"reset", "distill", "println">> = PipelineOrder(command)
          /\ ~is_ok /\ ~allow_errors
          /\ surface_resets = 0

\* norm --allow-errors has exited 0 on a term whose elaboration reported
\* an error: it normalized before draining, and reset the surface arena
\* once, after the drain.
C28_Witness ==
    /\ command = "norm" /\ allow_errors
    /\ exit_code = <<0>>
    /\ \E i \in 1..Len(stderr) : stderr[i].severity = "Error"
    /\ steps = <<"load_input", "parse_term", "synth", "normalize", "quote",
                 "check_elaboration", "reset", "distill", "println">>
    /\ surface_resets = 1

----------------------------------------------------------------------------
(* Part 6: the pretty printer of core terms
   (fathom/src/pass/core_to_pretty.rs).  A document is the sequence of its
   texts, every space (which the layout may turn into a line break) being
   the text " " *)

\* enum Prec.
Prec == [Term |-> 0, Arrow |-> 1, App |-> 2, Atomic |-> 3]

\* TermData::TypeType and TermData::FormatType; the other terms have the
\* shape of the core terms of part 1.
TypeType == [tag |-> "TypeType"]

FormatType == [tag |-> "FormatType"]

\* Lines 140-170: the kind of the constant and its value as text.
from_constant(constant) ==
    CASE constant.kind = "Int" -> <<"int", " ", ToString(constant.val)>>
      [] constant.kind = "F32" -> <<"f32", " ", ToString(constant.val)>>

\* The doc in no parentheses, whatever b.
paren_never(b, d) == d

\* Lines 274-284.
paren(b, d) == IF b THEN <<"(">> \o d \o <<")">> ELSE d

\* The keys of the branches in ascending order (the iteration order of the
\* map of branches).
RECURSIVE Ascending(_)
Ascending(keys) ==
    IF keys = {} THEN <<>>
    ELSE LET least == CHOOSE k \in keys : \A j \in keys : k <= j
         IN <<least>> \o Ascending(keys \ {least})

\* Lines 181-272.
RECURSIVE from_term_prec(_, _)
from_term_prec(t, p) ==
    CASE t.tag = "Global" -> <<"global", " ", t.name>>
      [] t.tag = "Item" -> <<"item", " ", t.name>>
      [] t.tag = "Ann" ->
            paren(p > Prec.Term,
                  from_term_prec(t.term, Prec.Arrow) \o <<" ", ":">>
                  \o <<" ">> \o from_term_prec(t.type, Prec.Term))
      [] t.tag = "TypeType" -> <<"Type">>
      [] t.tag = "FunctionType" ->
            paren(p > Prec.Arrow,
                  from_term_prec(t.param_type, Prec.App) \o <<" ", "->", " ">>
                  \o from_term_prec(t.body_type, Prec.Arrow))
      [] t.tag = "FunctionElim" ->
            paren(p > Prec.App,
                  from_term_prec(t.head, Prec.Atomic)
                  \o <<" ">> \o from_term_prec(t.argument, Prec.Atomic))
      [] t.tag = "Constant" -> from_constant(t.constant)
      [] t.tag = "BoolElim" ->
            <<"bool_elim", " ">> \o from_term_prec(t.head, Prec.Term)
            \o <<" ", "{", " ">> \o from_term_prec(t.if_true, Prec.Term)
            \o <<",", " ">> \o from_term_prec(t.if_false, Prec.Term)
            \o <<" ", "}">>
      [] t.tag = "IntElim" ->
            <<"int_elim", " ">> \o from_term_prec(t.head, Prec.Term)
            \o <<" ", "{">>
            \o Concat([i \in 1..Cardinality(DOMAIN t.branches) |->
                  LET key == Ascending(DOMAIN t.branches)[i] IN
                  <<" ", ToString(key), " ", "=>", " ">>
                  \o from_term_prec(t.branches[key], Prec.Term) \o <<",">>])
            \o <<" ">> \o from_term_prec(t.default, Prec.Term)
            \o <<" ", "}">>
      [] t.tag = "FormatType" -> <<"Format">>
      [] t.tag = "Error" -> <<"!">>

\* The terms printed: leaves, every construct over leaves, and Ann,
\* FunctionType and FunctionElim over those.
CoreLeaves == {Global(R0, "x"), TypeType, Constant(R0, CInt(1)), Error(R0)}

CoreTerms1 ==
    CoreLeaves
    \cup {Item(R0, "S"), FormatType, Constant(R0, CF32(0)),
          BoolElim(R0, Global(R0, "x"), TypeType, FormatType),
          IntElim(R0, Global(R0, "x"),
                  (1 :> TypeType) @@ (0 :> FormatType), Error(R0)),
          IntElim(R0, Global(R0, "x"), <<>>, TypeType)}
    \cup { Ann(a, b) : a \in CoreLeaves, b \in CoreLeaves }
    \cup { FunctionType(a, b) : a \in CoreLeaves, b \in CoreLeaves }
    \cup { FunctionElim(a, b) : a \in CoreLeaves, b \in CoreLeaves }

InitCorePretty ==
    /\ IdleEval
    /\ IdleEqual
    /\ IdleCli
    /\ IdleEmit
    /\ IdleDesugar
    /\ IdleSurfacePretty
    /\ \/ core_term \in CoreTerms1
       \/ \E a \in CoreTerms1, b \in CoreTerms1 :
             core_term \in {Ann(a, b), FunctionType(a, b), FunctionElim(a, b),
                            BoolElim(R0, a, b, TypeType)}
    /\ core_prec \in {Prec.Term, Prec.Arrow, Prec.App, Prec.Atomic}
    /\ core_doc = <<>>

\* core_doc := from_term_prec(core_term, core_prec)
FromTermPrec ==
    /\ core_term /= None
    /\ core_doc = <<>>
    /\ core_doc' = from_term_prec(core_term, core_prec)
    /\ UNCHANGED <<core_term, core_prec>>
    /\ UNCHANGED <<evalVars, equalVars, cliVars, emitVars>>
    /\ UNCHANGED <<desugarVars, surfacePrettyVars>>

NextCorePretty == FromTermPrec

SpecCorePretty == InitCorePretty /\ [][NextCorePretty]_vars

\* How many parentheses are open after the first k texts of a document.
Depth(d, k) ==
    Cardinality({ i \in 1..k : d[i] = "(" }) - Cardinality({ i \in 1..k : d[i] = ")" })

\* The document is one pair of parentheses around everything else.
Wrapped(d) ==
    /\ Len(d) >= 2
    /\ d[1] = "(" /\ d[Len(d)] = ")"
    /\ \A k \in 1..(Len(d) - 1) : Depth(d, k) > 0

\* The document without its first and last text.
Strip(d) == SubSeq(d, 2, Len(d) - 1)

\* C29: from_term_prec puts a term in parentheses exactly when it is an
\* Ann asked for above Term, a FunctionType asked for above Arrow or a
\* FunctionElim asked for above App; every other term is printed without
\* parentheses of its own at every precedence.  Hence in `P -> B` a
\* function type is in parentheses as P and not as B, and in `h a` an
\* application is in parentheses both as h and as a.
C29_Parenthesization ==
    core_doc /= <<>> =>
        LET tag == core_term.tag
            inner == IF Wrapped(core_doc) THEN Strip(core_doc) ELSE core_doc
        IN
        /\ Wrapped(core_doc) <=>
              \/ tag = "Ann" /\ core_prec > 0
              \/ tag = "FunctionType" /\ core_prec > 1
              \/ tag = "FunctionElim" /\ core_prec > 2
        /\ tag \notin {"Ann", "FunctionType", "FunctionElim"} =>
              core_doc[1] \in {"global", "item", "int", "f32", "Type", "Format",
                               "bool_elim", "int_elim", "!"}
        /\ tag = "FunctionType" =>
              LET param == from_term_prec(core_term.param_type, Prec.App)
                  body == from_term_prec(core_term.body_type, Prec.Arrow)
              IN /\ inner = param \o <<" ", "->", " ">> \o body
                 /\ core_term.param_type.tag = "FunctionType" => Wrapped(param)
                 /\ core_term.body_type.tag = "FunctionType" => ~Wrapped(body)
        /\ tag = "FunctionElim" =>
              LET head == from_term_prec(core_term.head, Prec.Atomic)
                  argument == from_term_prec(core_term.argument, Prec.Atomic)
              IN /\ inner = head \o <<" ">> \o argument
                 /\ core_term.head.tag = "FunctionElim" => Wrapped(head)
                 /\ core_term.argument.tag = "FunctionElim" => Wrapped(argument)

\* from_term_prec has printed (x -> Type) -> Type -> x at Prec::Term: the
\* function type in parameter position is in parentheses, the one in body
\* position is not.
C29_Witness ==
    /\ core_term = FunctionType(FunctionType(Global(R0, "x"), TypeType),
                                FunctionType(TypeType, Global(R0, "x")))
    /\ core_prec = 0
    /\ core_doc = <<"(", "global", " ", "x", " ", "->", " ", "Type", ")",
                    " ", "->", " ",
                    "Type", " ", "->", " ", "global", " ", "x">>

----------------------------------------------------------------------------
(* Part 7: the printing of `if` in the pretty printer of surface terms
   (fathom/src/surface/pretty.rs).  A document is the sequence of its texts
   as rendered: flat when it fits the line, broken at its hard lines
   otherwise; indentation is left out *)

\* The longest chain of `else if` in the terms printed.
MaxChain == 2

\* Term::Name, Term::Paren and Term::If.
Name(name) == [tag |-> "Name", name |-> name]

Paren(t) == [tag |-> "Paren", term |-> t]

If(cond_expr, then_expr, else_expr) ==
    [tag |-> "If", cond_expr |-> cond_expr, then_expr |-> then_expr,
     else_expr |-> else_expr]

\* lexer::is_keyword on the names of the model.
is_keyword(name) == name \in {"if", "then", "else", "match", "let", "fun"}

\* Lines 32-38: a keyword used as a name is written with r#.
ident(name) == IF is_keyword(name) THEN <<"r#", name>> ELSE <<name>>

\* Lines 401-403.
surface_paren(d) == <<"(">> \o d \o <<")">>

\* Lines 443-461; the arguments are the documents of the three terms.
pretty_if(cond_doc, then_doc, else_doc, fits) ==
    LET cond == <<"if", " ">> \o cond_doc
        then == <<"then", " ">> \o then_doc
        else == <<"else", " ">> \o else_doc
    IN IF fits
       THEN cond \o <<" ">> \o then \o <<" ">> \o else
       ELSE cond \o <<NL>> \o then \o <<NL>> \o else

\* Lines 463-530; branches holds the documents of each `else if` pair.
pretty_if_else_chain(cond_doc, then_doc, branches, else_doc, fits) ==
    LET cond == <<"if", " ">> \o cond_doc
        then == <<"then", " ">> \o then_doc
        else == <<"else", " ">> \o else_doc
        branch(i) == <<"else if", " ">> \o branches[i].cond \o <<" ", "then", " ">>
                     \o branches[i].then
    IN IF fits
       THEN cond \o <<" ">> \o then \o <<" ">>
            \o Concat([i \in 1..Len(branches) |-> <<" ">> \o branch(i)])
            \o <<" ">> \o else
       ELSE cond \o <<NL>> \o then
            \o Concat([i \in 1..Len(branches) |-> <<NL>> \o branch(i)])
            \o <<NL>> \o else

\* The loop with every pair pushed at the front of branches.
RECURSIVE collect_branches_front(_, _)
collect_branches_front(branches, else_expr) ==
    IF else_expr.tag = "If"
    THEN collect_branches_front(
            <<[cond_expr |-> else_expr.cond_expr, then_expr |-> else_expr.then_expr]>>
            \o branches,
            else_expr.else_expr)
    ELSE [branches |-> branches, else_expr |-> else_expr]

\* Lines 178-181: `while let Term::If(..) = else_expr`, one round per call.
RECURSIVE collect_branches(_, _)
collect_branches(branches, else_expr) ==
    IF else_expr.tag = "If"
    THEN collect_branches(
            Append(branches,
                   [cond_expr |-> else_expr.cond_expr, then_expr |-> else_expr.then_expr]),
            else_expr.else_expr)
    ELSE [branches |-> branches, else_expr |-> else_expr]

\* Lines 145-188: Context::term, for names, parentheses and `if`.
RECURSIVE term_doc(_, _)
term_doc(t, fits) ==
    CASE t.tag = "Name" -> ident(t.name)
      [] t.tag = "Paren" -> surface_paren(term_doc(t.term, fits))
      [] t.tag = "If" ->
            LET chain == collect_branches(<<>>, t.else_expr)
                docs == [i \in 1..Len(chain.branches) |->
                           [cond |-> term_doc(chain.branches[i].cond_expr, fits),
                            then |-> term_doc(chain.branches[i].then_expr, fits)]]
            IN IF chain.branches = <<>>
               THEN pretty_if(term_doc(t.cond_expr, fits), term_doc(t.then_expr, fits),
                              term_doc(chain.else_expr, fits), fits)
               ELSE pretty_if_else_chain(term_doc(t.cond_expr, fits),
                                         term_doc(t.then_expr, fits), docs,
                                         term_doc(chain.else_expr, fits), fits)

\* The terms printed: chains of up to MaxChain `else if` whose conditions
\* are names, whose then branches are names or an `if`, and whose last else
\* is a name, a keyword used as a name, or an `if` in parentheses.
CondInputs == {Name("a"), Name("b")}

ThenInputs == {Name("a"), Name("b"), If(Name("b"), Name("a"), Name("b"))}

ElseInputs ==
    {Name("a"), Name("b"), Name("match"),
     Paren(If(Name("a"), Name("b"), Name("a")))}

\* The chains of n `if`.
RECURSIVE Chains(_)
Chains(n) ==
    IF n = 0 THEN ElseInputs
    ELSE { If(cond_expr, then_expr, else_expr) :
              cond_expr \in CondInputs, then_expr \in ThenInputs,
              else_expr \in Chains(n - 1) }

InitSurfacePretty ==
    /\ IdleEval
    /\ IdleEqual
    /\ IdleCli
    /\ IdleEmit
    /\ IdleDesugar
    /\ IdleCorePretty
    /\ \E n \in 1..(MaxChain + 1) : surface_term \in Chains(n)
    /\ surface_fits \in BOOLEAN
    /\ surface_doc = <<>>

\* surface_doc := the rendering of Context::term(surface_term)
PrettyTerm ==
    /\ surface_term /= None
    /\ surface_doc = <<>>
    /\ surface_doc' = term_doc(surface_term, surface_fits)
    /\ UNCHANGED <<surface_term, surface_fits>>
    /\ UNCHANGED <<evalVars, equalVars, cliVars, emitVars>>
    /\ UNCHANGED <<desugarVars, corePrettyVars>>

NextSurfacePretty == PrettyTerm

SpecSurfacePretty == InitSurfacePretty /\ [][NextSurfacePretty]_vars

\* The condition/then pairs of an `if` and of the `if`s directly nested in
\* its else branch, in source order.
RECURSIVE Pairs(_)
Pairs(t) ==
    IF t.tag = "If"
    THEN <<[cond_expr |-> t.cond_expr, then_expr |-> t.then_expr]>> \o Pairs(t.else_expr)
    ELSE <<>>

\* The innermost else branch that is not an `if`.
RECURSIVE FinalElse(_)
FinalElse(t) == IF t.tag = "If" THEN FinalElse(t.else_expr) ELSE t

\* The texts of a document that are not white space.
Words(d) == SelectSeq(d, LAMBDA text : text \notin {" ", NL})

\* How often a text occurs in a document.
Count(d, text) == Cardinality({ i \in 1..Len(d) : d[i] = text })

\* The term has no `if` below its chain.
PlainChain(t) ==
    /\ \A i \in 1..Len(Pairs(t)) : Pairs(t)[i].then_expr.tag = "Name"
    /\ FinalElse(t).tag = "Name"

\* C30: for an `if` whose else branch is a chain of k directly nested
\* `if`s, Context::term returns, and its words are `if c1 then t1`, then
\* `else if ci then ti` for each of the k nested pairs in source order,
\* then `else e` with e the innermost else branch that is not an `if`, in
\* the flat and in the broken layout; with k = 0 this is the plain
\* `if c then t else e`.  When no `if` stands below the chain the document
\* has one `if`, k `else if` and one `else`.
C30_IfChain ==
    surface_doc /= <<>> =>
        LET pairs == Pairs(surface_term)
            k == Len(pairs) - 1
            words(t) == Words(term_doc(t, surface_fits))
        IN
        /\ Words(surface_doc)
              = <<"if">> \o words(pairs[1].cond_expr)
                \o <<"then">> \o words(pairs[1].then_expr)
                \o Concat([i \in 1..k |->
                      <<"else if">> \o words(pairs[i + 1].cond_expr)
                      \o <<"then">> \o words(pairs[i + 1].then_expr)])
                \o <<"else">> \o words(FinalElse(surface_term))
        /\ PlainChain(surface_term) =>
              /\ Count(surface_doc, "if") = 1
              /\ Count(surface_doc, "else if") = k
              /\ Count(surface_doc, "else") = 1
              /\ Count(surface_doc, "then") = k + 1
        /\ k = 0 =>
              surface_doc =
                 IF surface_fits
                 THEN <<"if", " ">> \o term_doc(surface_term.cond_expr, TRUE)
                      \o <<" ", "then", " ">> \o term_doc(surface_term.then_expr, TRUE)
                      \o <<" ", "else", " ">> \o term_doc(surface_term.else_expr, TRUE)
                 ELSE <<"if", " ">> \o term_doc(surface_term.cond_expr, FALSE)
                      \o <<NL, "then", " ">> \o term_doc(surface_term.then_expr, FALSE)
                      \o <<NL, "else", " ">> \o term_doc(surface_term.else_expr, FALSE)

\* Context::term has printed, broken over lines,
\* if a then b else if b then a else if a then a else match.
C30_Witness ==
    /\ surface_term = If(Name("a"), Name("b"),
                         If(Name("b"), Name("a"),
                            If(Name("a"), Name("a"), Name("match"))))
    /\ ~surface_fits
    /\ surface_doc = <<"if", " ", "a", NL, "then", " ", "b",
                       NL, "else if", " ", "b", " ", "then", " ", "a",
                       NL, "else if", " ", "a", " ", "then", " ", "a",
                       NL, "else", " ", "r#", "match">>

====
